---- MODULE Spec2Model ----
(***************************************************************************)
(* Model of the optimized batch runner of playwright-lighthouse-test:      *)
(* ResourceManager (concurrency limiter), ResultCache (index + cache       *)
(* directory), testWebsite (retry loop around runFullTest) and             *)
(* optimizedBatchTest (fan-out and collection of the batch results).       *)
(*                                                                         *)
(* JavaScript runs one handler at a time.  An action of the model is one   *)
(* run-to-completion step: the synchronous prefix of an async function up  *)
(* to its first await, or the continuation that runs when an awaited       *)
(* promise settles.  Continuations of already settled promises             *)
(* (microtasks) run before any timer or I/O completion (macrotasks).       *)
(***************************************************************************)
EXTENDS Integers, Sequences, FiniteSets, TLC

\* ------------------------------------------------------------------ bounds
MaxN == 3
MaxCap == 2
MaxRetries == 2
MaxTime == 2
MaxDuration == 1
\* targets of a batch whose collaborator may never respond
HangN == 2
\* the largest retryCount a caller passes to captureScreenshot
MaxShotRetries == 3
\* captureScreenshot's default retryCount and runLighthouseTest's maxRetries
ShotDefaultRetryCount == 2
LhMaxRetries == 2
\* the delay units of the backoffs of captureScreenshot and runLighthouseTest, in ms
ShotBackoffBase == 1000
LhBackoffBase == 2000
\* compareResults' thresholds: one score point, in half points, and 0.001 of a
\* metric's number, in thousandths
OnePoint == 2
MetricThreshold == 1
\* the delay unit of testWebsite's backoff, in ms
BackoffBase == 5000
\* maxRetries of the batches that are run twice
RerunRetries == 1

\* ------------------------------------------------------------------ values
URLS == {"a", "b"}
OPTIONS == {"o1", "o2"}
CATEGORIES == {"performance", "accessibility"}

\* a property that is not there reads as undefined
Undefined == "undefined"
\* scores[category] of a category the result does not carry
Absent == 0 - 1

\* What runFullTest resolves with: { screenshotPath, lighthouse: { scores } }.
ResultA == [scores |-> [c \in CATEGORIES |-> IF c = "performance" THEN 80 ELSE 90],
            screenshotPath |-> "shot.png"]
ResultB == [scores |-> [c \in CATEGORIES |-> IF c = "performance" THEN 100 ELSE Absent],
            screenshotPath |-> Undefined]
RESULTS == {ResultA, ResultB}
NoResult == [scores |-> [c \in CATEGORIES |-> Absent], screenshotPath |-> Undefined]

\* websites.json: the first n entries are the batch; "a" is listed more than once
SiteList == [i \in 1..(MaxN + 1) |-> IF i % 2 = 1 THEN "a" ELSE "b"]

\* the result the audit of a url yields when it succeeds
AuditResult(url) == IF url = "a" THEN ResultA ELSE ResultB

\* error.message of what an attempt rejects with; Undefined when the rejected
\* value carries no message
MsgPlain == "net::ERR_TIMED_OUT"
MsgNav == "start lh:driver:navigate"
MsgTypeError == "TypeError: cannot read properties"
MsgUnlink == "EPERM: unlink"
\* the target's host name does not resolve: the same on every attempt
MsgNameNotResolved == "net::ERR_NAME_NOT_RESOLVED"
NoError == ""
AttemptMessages == {MsgPlain, MsgNav, MsgNameNotResolved, Undefined}

\* message.includes('start lh:driver:navigate')
IsNavMarker(message) == message = MsgNav

\* no call of a function of index.js is being followed
NoCollab == [fn |-> "none"]

\* ------------------------------------------------------------------ state
VARIABLES
  websites,       \* config.websites
  testOptions,    \* config.testOptions, shared by all jobs of the batch
  maxConcurrent,  \* batchOptions.maxConcurrent = ResourceManager.maxConcurrent
  maxRetries,     \* batchOptions.maxRetries
  cacheDuration,  \* ResultCache.cacheDuration
  running,        \* ResourceManager.running
  queue,          \* ResourceManager.queue: the jobs whose resolve is queued
  index,          \* ResultCache.cache: key -> timestamp
  files,          \* the cache directory: key -> content of <key>.json
  now,            \* Date.now()
  lastSet,        \* per key, the last ResultCache.set (history)
  jobs,           \* per target, the state of its testWebsite call
  batchResults,   \* batchResults of optimizedBatchTest
  batchPc,        \* where optimizedBatchTest is
  batchReturn,    \* what optimizedBatchTest settled with
  summaryData,    \* summaryData of generateSummaryReport
  firstRun,       \* what an earlier optimizedBatchTest call of this session left (history)
  collab          \* a call of captureScreenshot or runLighthouseTest (index.js), run on its own

vars == <<websites, testOptions, maxConcurrent, maxRetries, cacheDuration, running,
          queue, index, files, now, lastSet, jobs, batchResults, batchPc, batchReturn,
          summaryData, firstRun, collab>>

limiterVars == <<running, queue>>
cacheVars == <<index, files, lastSet>>
configVars == <<websites, testOptions, maxConcurrent, maxRetries, cacheDuration>>
\* the configuration that no job has a reference to
batchConfig == <<websites, maxConcurrent, maxRetries, cacheDuration>>
batchVars == <<jobs, batchResults, batchPc, batchReturn, summaryData>>

\* ------------------------------------------------------------------ ResultCache
\* md5(JSON.stringify({url, options})): distinct (url, options) give distinct keys
generateKey(url, options) == <<url, options>>
KEYS == {generateKey("a", "o1"), generateKey("b", "o1"), generateKey("a", "o2")}
\* the order in which readdirSync lists the cache files
KeySeq == <<generateKey("a", "o1"), generateKey("a", "o2"), generateKey("b", "o1")>>

NoEntry == 0 - 1
NoFile == [kind |-> "nofile", timestamp |-> 0, result |-> NoResult]
\* a file whose content JSON.parse rejects
Corrupt == [kind |-> "corrupt", timestamp |-> 0, result |-> NoResult]

\* JSON.stringify drops a property whose value is undefined; reading the dropped
\* property of the parsed object gives undefined again. Numbers and strings are kept.
JsonStringify(cacheData) ==
  [kind |-> "json", timestamp |-> cacheData.timestamp,
   result |-> [scores |-> cacheData.result.scores,
               screenshotPath |-> cacheData.result.screenshotPath]]
JsonParse(content) == [timestamp |-> content.timestamp, result |-> content.result]

\* an entry of age exactly cacheDuration still counted as valid
IsValidInclusive(t, timestamp, dur) == (t - timestamp) <= dur

\* (Date.now() - timestamp) < this.cacheDuration
IsValid(t, timestamp, dur) == (t - timestamp) < dur

\* ResultCache.has: the returned value and the index and directory it leaves.
\* unlinkOk: whether fs.unlinkSync succeeds; it throws out of has otherwise.
Has(idx, fl, k, t, dur, unlinkOk) ==
  IF idx[k] = NoEntry
    THEN [ret |-> FALSE, threw |-> FALSE, index |-> idx, files |-> fl]
  ELSE IF IsValid(t, idx[k], dur)
    THEN [ret |-> TRUE, threw |-> FALSE, index |-> idx, files |-> fl]
  ELSE IF fl[k].kind = "nofile"
    THEN [ret |-> FALSE, threw |-> FALSE, index |-> [idx EXCEPT ![k] = NoEntry], files |-> fl]
  ELSE IF unlinkOk
    THEN [ret |-> FALSE, threw |-> FALSE, index |-> [idx EXCEPT ![k] = NoEntry],
          files |-> [fl EXCEPT ![k] = NoFile]]
  ELSE [ret |-> FALSE, threw |-> TRUE, index |-> [idx EXCEPT ![k] = NoEntry], files |-> fl]

\* ResultCache.get: kind "hit" with the result, "null", or "threw" (from has).
\* readOk: whether fs.readFileSync succeeds.
Get(idx, fl, k, t, dur, unlinkOk, readOk) ==
  LET h == Has(idx, fl, k, t, dur, unlinkOk) IN
  IF h.threw
    THEN [kind |-> "threw", result |-> NoResult, index |-> h.index, files |-> h.files]
  ELSE IF ~h.ret
    THEN [kind |-> "null", result |-> NoResult, index |-> h.index, files |-> h.files]
  ELSE IF h.files[k].kind = "json" /\ readOk
    THEN [kind |-> "hit", result |-> JsonParse(h.files[k]).result,
          index |-> h.index, files |-> h.files]
  ELSE [kind |-> "null", result |-> NoResult, index |-> h.index, files |-> h.files]

\* a set that stores nothing
SetNothing(idx, fl, k, t, r, writeOk) == [index |-> idx, files |-> fl]

\* ResultCache.set. writeOk: whether fs.writeFileSync succeeds.
Set(idx, fl, k, t, r, writeOk) ==
  [index |-> [idx EXCEPT ![k] = t],
   files |-> IF writeOk
               THEN [fl EXCEPT ![k] = JsonStringify([timestamp |-> t, result |-> r])]
               ELSE fl]

\* ResultCache.loadCache: the index built from the directory; the first file that
\* does not parse ends the loop (the catch is around the whole loop).
RECURSIVE LoadFrom(_, _, _)
LoadFrom(i, idx, fl) ==
  IF i > Len(KeySeq) THEN idx
  ELSE LET k == KeySeq[i] IN
       IF fl[k].kind = "nofile" THEN LoadFrom(i + 1, idx, fl)
       ELSE IF fl[k].kind = "corrupt" THEN idx
       ELSE LoadFrom(i + 1, [idx EXCEPT ![k] = JsonParse(fl[k]).timestamp], fl)
\* a new instance that starts with an empty index, the directory not read
LoadCacheNothing(fl) == [k \in KEYS |-> NoEntry]
\* an index that has an entry for every key, stored or not
LoadCacheEveryKey(fl) == [k \in KEYS |-> 0]
LoadCache(fl) == LoadFrom(1, [k \in KEYS |-> NoEntry], fl)

\* ResultCache.cleanup: every entry whose age is >= cacheDuration leaves the index
\* and its file is unlinked. unlinkOk[k]: whether the unlink of k's file succeeds;
\* a failing unlink throws out of cleanup, the entries after it untouched.
RECURSIVE CleanFrom(_, _, _, _, _, _)
CleanFrom(i, idx, fl, t, dur, unlinkOk) ==
  IF i > Len(KeySeq) THEN [threw |-> FALSE, index |-> idx, files |-> fl]
  ELSE LET k == KeySeq[i] IN
       IF idx[k] = NoEntry \/ ~((t - idx[k]) >= dur)
         THEN CleanFrom(i + 1, idx, fl, t, dur, unlinkOk)
       ELSE IF fl[k].kind = "nofile"
         THEN CleanFrom(i + 1, [idx EXCEPT ![k] = NoEntry], fl, t, dur, unlinkOk)
       ELSE IF unlinkOk[k]
         THEN CleanFrom(i + 1, [idx EXCEPT ![k] = NoEntry], [fl EXCEPT ![k] = NoFile],
                        t, dur, unlinkOk)
       ELSE [threw |-> TRUE, index |-> [idx EXCEPT ![k] = NoEntry], files |-> fl]
\* a sweep that keeps an entry of the age of exactly cacheDuration
CleanupStrict(idx, fl, t, dur, unlinkOk) == CleanFrom(1, idx, fl, t, dur + 1, unlinkOk)
\* ResultCache.cleanup
Cleanup(idx, fl, t, dur, unlinkOk) == CleanFrom(1, idx, fl, t, dur, unlinkOk)

\* ------------------------------------------------------------------ ResourceManager
\* acquire(): a slot at once when running < maxConcurrent, else the caller's
\* resolve is pushed on the queue.
CanAcquireOffByOne(run, cap) == run <= cap
CanAcquire(run, cap) == run < cap
\* acquire() that puts the caller in front of the waiters (unshift instead of push)
AcquireUnshift(run, q, cap, j) ==
  IF CanAcquire(run, cap)
    THEN [running |-> run + 1, queue |-> q, granted |-> TRUE]
    ELSE [running |-> run, queue |-> <<j>> \o q, granted |-> FALSE]
Acquire(run, q, cap, j) ==
  IF CanAcquire(run, cap)
    THEN [running |-> run + 1, queue |-> q, granted |-> TRUE]
    ELSE [running |-> run, queue |-> Append(q, j), granted |-> FALSE]

\* release() that takes the most recent waiter (pop instead of shift)
ReleaseLifo(run, q) ==
  IF Len(q) > 0
    THEN [running |-> run, queue |-> SubSeq(q, 1, Len(q) - 1), next |-> q[Len(q)]]
    ELSE [running |-> run - 1, queue |-> q, next |-> 0]

\* release() that decrements running also when it hands the slot to a waiter
ReleaseAlwaysDecrements(run, q) ==
  IF Len(q) > 0
    THEN [running |-> run - 1, queue |-> Tail(q), next |-> Head(q)]
    ELSE [running |-> run - 1, queue |-> q, next |-> 0]

\* release(): the first queued resolve is called, or running is decremented.
\* next is the job whose acquire() promise was resolved, 0 when none.
Release(run, q) ==
  IF Len(q) > 0
    THEN [running |-> run, queue |-> Tail(q), next |-> Head(q)]
    ELSE [running |-> run - 1, queue |-> q, next |-> 0]

\* ------------------------------------------------------------------ testWebsite
NoSet == [done |-> FALSE, time |-> 0, result |-> NoResult, wrote |-> FALSE]
NoOutcome == [kind |-> "none", result |-> NoResult, error |-> NoError]
NoScores == [c \in CATEGORIES |-> Absent]

\* A testWebsite call before it starts. pc: new, queued (its resolve is in the
\* queue), granted (its acquire() promise is resolved, the continuation not yet
\* run), running (an attempt is in flight), backoff (waiting before a retry),
\* returned (testWebsite settled), collected (its entry is in batchResults).
\* calls, fails, acquired and releases are history: the runFullTest invocations,
\* the failed attempts, whether acquire() returned, the release() calls.
NewJob ==
  [pc |-> "new", retries |-> 0, lastError |-> NoError, waitUntil |-> "domcontentloaded",
   waitTime |-> 0, calls |-> 0, fails |-> 0, acquired |-> FALSE, releases |-> 0,
   outcome |-> NoOutcome]

\* A testWebsite call whose result the callback has consumed: its locals are gone.
Collected == [NewJob EXCEPT !.pc = "collected"]

N == Len(websites)
JobIds == 1..N
Pending(j) == jobs[j].pc \in {"granted", "returned"}
NoMicrotask == \A j \in JobIds : ~Pending(j)
\* continuations of settled promises run in the order the promises settled
FirstPending(j) == Pending(j) /\ \A i \in JobIds : Pending(i) => j <= i
NextNew(j) == jobs[j].pc = "new" /\ \A i \in JobIds : jobs[i].pc = "new" => j <= i

\* const waitTime = retries * 5000, computed after retries++
WaitTime(retries) == retries * BackoffBase

\* The shared options object after a job wrote `value` into
\* enhancedOptions.screenshotOptions: enhancedOptions is a copy ({ ...options })
\* and its screenshotOptions a new object (lines 202-209), so the object shared by
\* the jobs is what it was. OptionsAliased is the write going through to the
\* shared object, which then is another options value.
OptionsAliased(shared, value) == "o2"
OptionsAfterWrite(shared, value) == shared

RetryAllowedOffByOne(retries, budget) == retries <= budget
\* while (retries <= maxRetries) ... if (retries < maxRetries) retries++ else break
RetryAllowed(retries, budget) == retries < budget

\* The limiter after job j called release(), and the jobs after the queued
\* caller, if any, had its promise resolved.
AfterRelease(js, j, rel) ==
  [i \in DOMAIN js |->
     IF i = rel.next /\ i # j THEN [js[i] EXCEPT !.pc = "granted"] ELSE js[i]]

\* ------------------------------------------------------------------ optimizedBatchTest
\* Lines 395-422: the empty list returns undefined at once; otherwise the
\* ResourceManager and the ResultCache are constructed (loadCache) and
\* cleanup() runs, whose failing unlink rejects the whole call.
Construct ==
  /\ batchPc = "init"
  /\ IF N = 0
       THEN /\ batchPc' = "done"
            /\ batchReturn' = "undefined"
            /\ UNCHANGED <<index, files, running, queue>>
       ELSE \E unlinkOk \in [KEYS -> BOOLEAN] :
              LET c == Cleanup(LoadCache(files), files, now, cacheDuration, unlinkOk) IN
              /\ index' = c.index
              /\ files' = c.files
              /\ running' = 0
              /\ queue' = <<>>
              /\ IF c.threw
                   THEN batchPc' = "done" /\ batchReturn' = "threw"
                   ELSE batchPc' = "dispatching" /\ batchReturn' = batchReturn
  /\ UNCHANGED <<configVars, firstRun, collab, now, lastSet, jobs, batchResults, summaryData>>

\* Lines 429-444 and 189-196: the map callback of target j and the synchronous
\* prefix of its testWebsite call: has, then get on a hit, else acquire().
\* dt: the time that passes between the has of line 191 and the get of line 192.
Dispatch(j) ==
  /\ batchPc = "dispatching"
  /\ NextNew(j)
  /\ \E unlinkOk \in BOOLEAN, readOk \in BOOLEAN, dt \in 0..1 :
       LET k == generateKey(websites[j], testOptions)
           h == Has(index, files, k, now, cacheDuration, unlinkOk)
           g == Get(h.index, h.files, k, now + dt, cacheDuration, unlinkOk, readOk)
           a == Acquire(running, queue, maxConcurrent, j)
       IN
       /\ now + dt <= MaxTime
       /\ IF h.threw
            THEN /\ dt = 0
                 /\ jobs' = [jobs EXCEPT ![j] = [@ EXCEPT !.pc = "returned",
                                !.outcome = [kind |-> "threw", result |-> NoResult,
                                             error |-> MsgUnlink]]]
                 /\ index' = h.index /\ files' = h.files
                 /\ UNCHANGED <<running, queue, now>>
          ELSE IF h.ret
            THEN /\ jobs' = [jobs EXCEPT ![j] = [@ EXCEPT !.pc = "returned",
                                !.outcome =
                                   IF g.kind = "hit"
                                     THEN [kind |-> "success", result |-> g.result,
                                           error |-> NoError]
                                   ELSE IF g.kind = "null"
                                     THEN [kind |-> "null", result |-> NoResult,
                                           error |-> NoError]
                                   ELSE [kind |-> "threw", result |-> NoResult,
                                         error |-> MsgUnlink]]]
                 /\ index' = g.index /\ files' = g.files
                 /\ now' = now + dt
                 /\ UNCHANGED <<running, queue>>
          ELSE /\ dt = 0
               /\ jobs' = [jobs EXCEPT ![j] = [@ EXCEPT !.pc =
                              IF a.granted THEN "granted" ELSE "queued"]]
               /\ running' = a.running /\ queue' = a.queue
               /\ index' = h.index /\ files' = h.files
               /\ UNCHANGED now
  /\ batchPc' = IF \A i \in JobIds : i # j => jobs[i].pc # "new"
                  THEN "awaiting" ELSE "dispatching"
  /\ UNCHANGED <<configVars, firstRun, collab, lastSet, batchResults, batchReturn, summaryData>>

\* Lines 196-263, first iteration: acquire() has returned; enhancedOptions is
\* built and runFullTest is called.
Resume(j) ==
  /\ batchPc = "awaiting"
  /\ jobs[j].pc = "granted"
  /\ FirstPending(j)
  /\ jobs' = [jobs EXCEPT ![j] = [@ EXCEPT !.pc = "running", !.acquired = TRUE,
                                    !.waitUntil = "domcontentloaded",
                                    !.calls = @ + 1]]
  /\ testOptions' = OptionsAfterWrite(testOptions, "domcontentloaded")
  /\ UNCHANGED <<batchConfig, firstRun, collab, limiterVars, cacheVars, now, batchResults,
                 batchPc, batchReturn, summaryData>>

\* Lines 283-313, the catch block for an attempt that failed with `message`, and
\* what follows the loop when the budget is used up.
Catch(job, url, message, budget) ==
  IF message = Undefined
    THEN \* error.message.includes throws inside the catch: testWebsite rejects
         [job |-> [job EXCEPT !.pc = "returned", !.fails = @ + 1,
                              !.outcome = [kind |-> "threw", result |-> NoResult,
                                           error |-> MsgTypeError]],
          released |-> FALSE]
  ELSE LET w == IF IsNavMarker(message) /\ job.retries < budget
                  THEN "load" ELSE job.waitUntil IN
       IF RetryAllowed(job.retries, budget)
         THEN [job |-> [job EXCEPT !.pc = "backoff", !.fails = @ + 1,
                                   !.lastError = message, !.waitUntil = w,
                                   !.retries = @ + 1,
                                   !.waitTime = WaitTime(job.retries + 1)],
               released |-> FALSE]
         ELSE [job |-> [job EXCEPT !.pc = "returned", !.fails = @ + 1,
                                   !.lastError = message, !.waitUntil = w,
                                   !.releases = @ + 1,
                                   !.outcome = [kind |-> "failure", result |-> NoResult,
                                                error |-> message]],
               released |-> TRUE]

\* Lines 263-282, after runFullTest resolved with results that carry lighthouse:
\* resultCache.set, release(), return results.
Succeed(job, r) ==
  [job EXCEPT !.pc = "returned", !.releases = @ + 1,
              !.outcome = [kind |-> "success", result |-> r, error |-> NoError]]

\* The attempt of job j settles: runFullTest resolves ("ok") or rejects. What
\* runFullTest resolves with always carries lighthouse (index.js 471-479), so
\* line 282 is not reached.
AttemptSettles(j, kind, message, writeOk) ==
  /\ batchPc = "awaiting"
  /\ NoMicrotask
  /\ jobs[j].pc = "running"
  /\   LET url == websites[j]
           k == generateKey(url, testOptions)
           r == AuditResult(url)
           s == Set(index, files, k, now, r, writeOk)
           c == Catch(jobs[j], url, message, maxRetries)
           released == kind = "ok" \/ c.released
           rel == IF released THEN Release(running, queue)
                  ELSE [running |-> running, queue |-> queue, next |-> 0]
           mine == IF kind = "ok" THEN Succeed(jobs[j], r) ELSE c.job
       IN
       /\ kind = "ok" => message = MsgPlain
       /\ kind = "ok" => /\ index' = s.index
                         /\ files' = s.files
                         /\ lastSet' = [lastSet EXCEPT ![k] =
                               [done |-> TRUE, time |-> now, result |-> r, wrote |-> writeOk]]
       /\ kind # "ok" => /\ writeOk
                         /\ UNCHANGED cacheVars
       /\ jobs' = AfterRelease([jobs EXCEPT ![j] = mine], j, rel)
       /\ running' = rel.running
       /\ queue' = rel.queue
       /\ testOptions' = IF kind # "ok" /\ IsNavMarker(message) /\ jobs[j].retries < maxRetries
                            THEN OptionsAfterWrite(testOptions, mine.waitUntil)
                            ELSE testOptions
  /\ UNCHANGED <<batchConfig, firstRun, collab, now, batchResults, batchPc, batchReturn,
                 summaryData>>

\* the attempt of job j settles in one of the ways it can
AttemptReturn(j) ==
  \E kind \in {"ok", "reject"}, message \in AttemptMessages, writeOk \in BOOLEAN :
    AttemptSettles(j, kind, message, writeOk)

\* Lines 211-263, a later iteration: the backoff timer fired; the options are
\* adjusted (waitUntil 'load' from the second retry on), the connection is warmed
\* up (its errors are swallowed) and runFullTest is called again.
BackoffDone(j) ==
  /\ batchPc = "awaiting"
  /\ NoMicrotask
  /\ jobs[j].pc = "backoff"
  /\ jobs' = [jobs EXCEPT ![j] = [@ EXCEPT !.pc = "running",
                                    !.waitUntil = IF jobs[j].retries >= 2 THEN "load" ELSE @,
                                    !.calls = @ + 1]]
  /\ testOptions' = OptionsAfterWrite(testOptions, jobs'[j].waitUntil)
  /\ UNCHANGED <<batchConfig, firstRun, collab, limiterVars, cacheVars, now, batchResults,
                 batchPc, batchReturn, summaryData>>

\* a callback whose catch pushes the url without an error message
EntryNoMessage(url, outcome) ==
  IF outcome.kind = "success"
    THEN [url |-> url, error |-> NoError, scores |-> outcome.result.scores]
  ELSE IF outcome.kind \in {"null", "threw"} \/ outcome.error = NoError
    THEN [url |-> url, error |-> NoError, scores |-> NoScores]
  ELSE [url |-> url, error |-> outcome.error, scores |-> NoScores]

\* Lines 446-476: the entry pushed for a settled testWebsite call. A null result
\* and a failure with an empty message make `results.error` / `results.lighthouse`
\* throw a TypeError, which the catch of the callback records.
Entry(url, outcome) ==
  IF outcome.kind = "success"
    THEN [url |-> url, error |-> NoError, scores |-> outcome.result.scores]
  ELSE IF outcome.kind = "null" \/ outcome.error = NoError
    THEN [url |-> url, error |-> MsgTypeError, scores |-> NoScores]
  ELSE [url |-> url, error |-> outcome.error, scores |-> NoScores]

\* a callback whose catch records nothing
CollectDropsThrown(j) ==
  /\ batchPc = "awaiting"
  /\ jobs[j].pc = "returned"
  /\ FirstPending(j)
  /\ batchResults' = IF jobs[j].outcome.kind \in {"threw", "null"}
                       THEN batchResults
                       ELSE Append(batchResults, Entry(websites[j], jobs[j].outcome))
  /\ jobs' = [jobs EXCEPT ![j] = Collected]
  /\ UNCHANGED <<configVars, firstRun, collab, limiterVars, cacheVars, now, batchPc, batchReturn, summaryData>>

Collect(j) ==
  /\ batchPc = "awaiting"
  /\ jobs[j].pc = "returned"
  /\ FirstPending(j)
  /\ batchResults' = Append(batchResults, Entry(websites[j], jobs[j].outcome))
  /\ jobs' = [jobs EXCEPT ![j] = Collected]
  /\ UNCHANGED <<configVars, firstRun, collab, limiterVars, cacheVars, now, batchPc, batchReturn, summaryData>>

\* ------------------------------------------------------------------ generateSummaryReport
RECURSIVE Gcd(_, _)
Gcd(a, b) == IF b = 0 THEN a ELSE Gcd(b, a % b)

\* The JavaScript number sum / count, kept as the fraction in lowest terms;
\* 0 / 0 is NaN and x / 0 is Infinity.
Divide(sum, count) ==
  IF count = 0
    THEN [kind |-> IF sum = 0 THEN "NaN" ELSE "Infinity", num |-> 0, den |-> 0]
    ELSE LET g == Gcd(sum, count) IN
         [kind |-> "number", num |-> sum \div g, den |-> count \div g]
\* averageScores[category] of a category that was never assigned
NoAverage == [kind |-> "undefined", num |-> 0, den |-> 0]

\* results.filter(r => r.scores): the positions of the entries that carry scores
SuccessfulResults(results) == {i \in 1..Len(results) : results[i].scores # NoScores}

\* the Set filled from Object.keys(result.scores) of the successful results
SummaryCategories(results) ==
  {c \in CATEGORIES : \E i \in SuccessfulResults(results) : results[i].scores[c] # Absent}

\* successfulResults.filter(r => r.scores[category] !== undefined)
Carrying(results, c) == {i \in SuccessfulResults(results) : results[i].scores[c] # Absent}

\* .reduce((acc, r) => acc + r.scores[category], 0) over the filtered results
RECURSIVE SumFrom(_, _, _)
SumFrom(i, results, c) ==
  IF i > Len(results) THEN 0
  ELSE (IF i \in Carrying(results, c) THEN results[i].scores[c] ELSE 0)
       + SumFrom(i + 1, results, c)

\* a count that takes every successful result, carrying the category or not
CountSuccessful(results, c) == Cardinality(SuccessfulResults(results))

\* successfulResults.filter(r => r.scores[category] !== undefined).length
CountCarrying(results, c) == Cardinality(Carrying(results, c))

\* count > 0 ? sum / count : 0
AverageScore(results, c) ==
  LET count == CountCarrying(results, c) IN
  IF count > 0 THEN Divide(SumFrom(1, results, c), count) ELSE Divide(0, 1)

NoSummary ==
  [made |-> FALSE, totalWebsites |-> 0, successfulTests |-> 0, failedTests |-> 0,
   hasAverages |-> FALSE, averageScores |-> [c \in CATEGORIES |-> NoAverage]]

\* a summary that divides every category's sum by the number of successful
\* results, whatever that number is
generateSummaryReportUnguarded(results) ==
  [made |-> TRUE,
   totalWebsites |-> Len(results),
   successfulTests |-> Cardinality({i \in 1..Len(results) : results[i].error = NoError}),
   failedTests |-> Cardinality({i \in 1..Len(results) : results[i].error # NoError}),
   hasAverages |-> TRUE,
   averageScores |-> [c \in CATEGORIES |->
                        Divide(SumFrom(1, results, c), CountCarrying(results, c))]]

\* summaryData as lines 509-540 build it. hasAverages: whether the averageScores
\* property was assigned (only when some result carries scores).
generateSummaryReport(results) ==
  LET some == SuccessfulResults(results) # {} IN
  [made |-> TRUE,
   totalWebsites |-> Len(results),
   successfulTests |-> Cardinality({i \in 1..Len(results) : results[i].error = NoError}),
   failedTests |-> Cardinality({i \in 1..Len(results) : results[i].error # NoError}),
   hasAverages |-> some,
   averageScores |-> [c \in CATEGORIES |->
                        IF some /\ c \in SummaryCategories(results)
                          THEN AverageScore(results, c) ELSE NoAverage]]

\* score.toFixed(1): the number rounded to one decimal, in tenths
ToFixed1(score) == (20 * score.num + score.den) \div (2 * score.den)

\* generateAverageScoreRow: no row without averageScores, else per category the
\* cell 'N/A' for an undefined average or the average with one decimal
\* (toFixed renders NaN as 'NaN').
generateAverageScoreRow(data) ==
  IF ~data.hasAverages THEN [row |-> FALSE, cells |-> [c \in CATEGORIES |-> "none"]]
  ELSE [row |-> TRUE,
        cells |-> [c \in CATEGORIES |->
                     LET score == data.averageScores[c] IN
                     IF score.kind = "undefined" THEN "N/A"
                     ELSE IF score.kind = "number" THEN ToString(ToFixed1(score))
                     ELSE score.kind]]

\* Lines 480-496: Promise.all resolved; the summary is generated from
\* batchResults, which is also what is returned as results.
Finish ==
  /\ batchPc = "awaiting"
  /\ \A j \in JobIds : jobs[j].pc = "collected"
  /\ batchPc' = "done"
  /\ batchReturn' = "results"
  /\ summaryData' = generateSummaryReport(batchResults)
  /\ UNCHANGED <<configVars, firstRun, collab, limiterVars, cacheVars, now, jobs, batchResults>>

\* Date.now() advances between the earlier run that left the cache directory
\* and the start of this batch. Within the batch the clock is read by the has and
\* get of the dispatch (Dispatch lets it advance between the two) and by set,
\* whose timestamp no later step of the same batch reads.
Tick ==
  /\ now < MaxTime
  /\ batchPc = "init"
  /\ now' = now + 1
  /\ UNCHANGED <<configVars, firstRun, collab, limiterVars, cacheVars, batchVars>>

\* The cache directory an earlier run may have left: per key of this batch no
\* file, a file that does not parse, or a result stored at time 0.
InitFiles ==
  {f \in [KEYS -> {NoFile, Corrupt} \cup
                  {JsonStringify([timestamp |-> 0, result |-> r]) : r \in RESULTS}] :
     \A k \in KEYS : /\ k[2] # "o1" => f[k] = NoFile
                     /\ f[k].kind = "json" => f[k].result = AuditResult(k[1])}

\* no earlier call in this session
NoFirstRun ==
  [done |-> FALSE, time |-> 0, summary |-> NoSummary, files |-> [k \in KEYS |-> NoFile],
   sets |-> [k \in KEYS |-> NoSet]]

Init ==
  /\ websites \in {SubSeq(SiteList, 1, n) : n \in 0..MaxN}
  /\ testOptions = "o1"
  /\ maxConcurrent \in 0..MaxCap
  /\ maxRetries \in 0..MaxRetries
  /\ cacheDuration \in 1..MaxDuration
  /\ running = 0
  /\ queue = <<>>
  /\ index = [k \in KEYS |-> NoEntry]
  /\ files \in InitFiles
  /\ now = 0
  /\ lastSet = [k \in KEYS |-> NoSet]
  /\ jobs = [j \in 1..Len(websites) |-> NewJob]
  /\ batchResults = <<>>
  /\ batchPc = "init"
  /\ batchReturn = "none"
  /\ summaryData = NoSummary
  /\ firstRun = NoFirstRun
  /\ collab = NoCollab

Next ==
  \/ Construct
  \/ \E j \in JobIds : Dispatch(j)
  \/ \E j \in JobIds : Resume(j)
  \/ \E j \in JobIds : AttemptReturn(j)
  \/ \E j \in JobIds : BackoffDone(j)
  \/ \E j \in JobIds : Collect(j)
  \/ Finish
  \/ Tick

Spec == Init /\ [][Next]_vars

\* Every enabled step is eventually taken: the event loop runs every pending
\* continuation, every timer fires and every attempt settles.
FairSpec == Spec /\ WF_vars(Next)

\* ------------------------------------------------------------------ the batch, run again
\* optimizedBatchTest is called a second time with the same config file and
\* options, after the first call returned (the script is started again, or the
\* exported function is called again). Nothing of the first call is left but the
\* cache directory; the clock goes on. firstRun keeps what the first call
\* returned, the directory it left and the set calls it made.
Rerun ==
  /\ batchPc = "done"
  /\ batchReturn = "results"
  /\ ~firstRun.done
  /\ firstRun' = [done |-> TRUE, time |-> now, summary |-> summaryData, files |-> files,
                  sets |-> lastSet]
  /\ jobs' = [j \in JobIds |-> NewJob]
  /\ batchResults' = <<>>
  /\ batchPc' = "init"
  /\ batchReturn' = "none"
  /\ summaryData' = NoSummary
  /\ running' = 0
  /\ queue' = <<>>
  /\ index' = [k \in KEYS |-> NoEntry]
  /\ lastSet' = [k \in KEYS |-> NoSet]
  /\ UNCHANGED <<configVars, collab, files, now>>

\* the first call starts on an empty cache directory; both calls run their
\* jobs one at a time (maxConcurrent: 1)
RerunInit ==
  /\ websites \in {SubSeq(SiteList, 1, n) : n \in 1..MaxN}
  /\ testOptions = "o1"
  /\ maxConcurrent = 1
  /\ maxRetries \in 0..RerunRetries
  /\ cacheDuration \in 1..MaxDuration
  /\ running = 0
  /\ queue = <<>>
  /\ index = [k \in KEYS |-> NoEntry]
  /\ files = [k \in KEYS |-> NoFile]
  /\ now = 0
  /\ lastSet = [k \in KEYS |-> NoSet]
  /\ jobs = [j \in 1..Len(websites) |-> NewJob]
  /\ batchResults = <<>>
  /\ batchPc = "init"
  /\ batchReturn = "none"
  /\ summaryData = NoSummary
  /\ firstRun = NoFirstRun
  /\ collab = NoCollab

RerunNext ==
  \/ Next
  \/ Rerun

RerunSpec == RerunInit /\ [][RerunNext]_vars

\* ------------------------------------------------------------------ a collaborator that never responds
\* `await runFullTest(website, enhancedOptions)` (line 263) is awaited as it is:
\* no Promise.race, no timer, no AbortSignal around it, and the timeout written
\* to enhancedOptions.screenshotOptions (lines 205-209, 218) goes nowhere,
\* because runFullTest calls captureScreenshot(testUrl, screenshotPath) without
\* options (index.js 467). A runFullTest whose promise never settles leaves the
\* job at line 263: no code of the job runs again.
AttemptHangs(j) ==
  /\ jobs[j].pc = "running"
  /\ jobs' = [jobs EXCEPT ![j] = [@ EXCEPT !.pc = "hung"]]
  /\ UNCHANGED <<configVars, firstRun, collab, limiterVars, cacheVars, now, batchResults,
                 batchPc, batchReturn, summaryData>>

\* A batch with an empty cache directory, every attempt of which answers or
\* never does.
HangInit ==
  /\ websites \in {SubSeq(SiteList, 1, n) : n \in 1..HangN}
  /\ testOptions = "o1"
  /\ maxConcurrent \in 1..MaxCap
  /\ maxRetries \in 0..RerunRetries
  /\ cacheDuration \in 1..MaxDuration
  /\ running = 0
  /\ queue = <<>>
  /\ index = [k \in KEYS |-> NoEntry]
  /\ files = [k \in KEYS |-> NoFile]
  /\ now = 0
  /\ lastSet = [k \in KEYS |-> NoSet]
  /\ jobs = [j \in 1..Len(websites) |-> NewJob]
  /\ batchResults = <<>>
  /\ batchPc = "init"
  /\ batchReturn = "none"
  /\ summaryData = NoSummary
  /\ firstRun = NoFirstRun
  /\ collab = NoCollab

HangNext ==
  \/ Next
  \/ \E j \in JobIds : AttemptHangs(j)

\* Every step of the program that can be taken is taken; whether a collaborator
\* answers is not the program's step.
HangSpec == HangInit /\ [][HangNext]_vars /\ WF_vars(Next)

\* ------------------------------------------------------------------ batch-test.js
\* What runFullTest does for a url, the same on every call: it resolves ("ok",
\* with AuditResult(url)) or rejects with a value whose message is the
\* behaviour.
BEHAVIOURS == {"ok"} \cup AttemptMessages

\* batchTest, lines 48-85: one runFullTest call per website, in the order of the
\* list; the result's scores are pushed, or { url, error: error.message } from
\* the catch. An error without a message gives an entry whose error is
\* undefined, which `r.error` reads as falsy, as it reads a missing one.
SequentialEntry(url, behaviour) ==
  IF behaviour = "ok"
    THEN [url |-> url, error |-> NoError, scores |-> AuditResult(url).scores]
  ELSE IF behaviour = Undefined
    THEN [url |-> url, error |-> NoError, scores |-> NoScores]
  ELSE [url |-> url, error |-> behaviour, scores |-> NoScores]

\* batchResults of batchTest when the loop has ended
batchTest(sites, behaviour) ==
  [i \in 1..Len(sites) |-> SequentialEntry(sites[i], behaviour[sites[i]])]

\* generateSummaryReport of batch-test.js, lines 106-140: statement by statement
\* the summaryData of part_001's function, without totalTime.
sequentialSummary(results) == generateSummaryReport(results)

\* optimizedBatchTest with the same deterministic runFullTest: collab holds the
\* behaviour of every url, and an attempt settles as its url behaves.
DetAttemptReturn(j) ==
  /\ collab.fn = "runFullTest"
  /\ \E writeOk \in BOOLEAN :
       LET b == collab.behaviour[websites[j]] IN
       AttemptSettles(j, IF b = "ok" THEN "ok" ELSE "reject",
                      IF b = "ok" THEN MsgPlain ELSE b, writeOk)

DetInit ==
  /\ websites \in {SubSeq(SiteList, 1, n) : n \in 1..MaxN}
  /\ testOptions = "o1"
  /\ maxConcurrent \in 1..MaxCap
  /\ maxRetries \in 0..MaxRetries
  /\ cacheDuration \in 1..MaxDuration
  /\ running = 0
  /\ queue = <<>>
  /\ index = [k \in KEYS |-> NoEntry]
  /\ files = [k \in KEYS |-> NoFile]
  /\ now = 0
  /\ lastSet = [k \in KEYS |-> NoSet]
  /\ jobs = [j \in 1..Len(websites) |-> NewJob]
  /\ batchResults = <<>>
  /\ batchPc = "init"
  /\ batchReturn = "none"
  /\ summaryData = NoSummary
  /\ firstRun = NoFirstRun
  /\ collab \in {[fn |-> "runFullTest", behaviour |-> b] : b \in [URLS -> BEHAVIOURS]}

DetNext ==
  \/ Construct
  \/ \E j \in JobIds : Dispatch(j)
  \/ \E j \in JobIds : Resume(j)
  \/ \E j \in JobIds : DetAttemptReturn(j)
  \/ \E j \in JobIds : BackoffDone(j)
  \/ \E j \in JobIds : Collect(j)
  \/ Finish
  \/ Tick

DetSpec == DetInit /\ [][DetNext]_vars

\* ------------------------------------------------------------------ index.js, one call
\* One call of captureScreenshot or of runLighthouseTest, followed from await
\* to await. Nothing else runs: the batch's variables stay as they are.
batchAll == <<configVars, limiterVars, cacheVars, now, batchVars, firstRun>>

WAITS == {"commit", "domcontentloaded", "load", "networkidle"}

\* const screenshotOptions = { ...defaultOptions, ...options } (lines 321-329):
\* a property the caller left out takes its default.
DefaultWaitUntil == "domcontentloaded"
\* a waitUntil property the caller left out
LeftOut == "leftout"
OptionOr(value, absent, default) == IF value = absent THEN default ELSE value

\* captureScreenshot(url, outputPath, options) at its first line. options is the
\* caller's object; waitUntil and retryCount are the properties of the copy
\* screenshotOptions; retry is retryAttempt. History: used (the waitUntil of every
\* page.goto), delays (every waitTime), open (contexts opened and not closed),
\* browser (none, open, closed).
ShotCall(options) ==
  [fn |-> "captureScreenshot", pc |-> "launch", options |-> options,
   waitUntil |-> OptionOr(options.waitUntil, LeftOut, DefaultWaitUntil),
   retryCount |-> OptionOr(options.retryCount, Absent, ShotDefaultRetryCount),
   retry |-> 0, used |-> <<>>, delays |-> <<>>,
   browser |-> "none", open |-> 0, chrome |-> "none", alive |-> 0, ret |-> "none"]

\* runLighthouseTest(testUrl, options) at line 58. retry is retryCount, chrome
\* is what the variable `chrome` refers to (none, alive, dead), alive the number
\* of Chrome processes this call launched that were not killed.
LhCall ==
  [fn |-> "runLighthouseTest", pc |-> "launch", options |-> [waitUntil |-> LeftOut,
                                                             retryCount |-> Absent],
   waitUntil |-> DefaultWaitUntil, retryCount |-> LhMaxRetries,
   retry |-> 0, used |-> <<>>, delays |-> <<>>,
   browser |-> "none", open |-> 0, chrome |-> "none", alive |-> 0, ret |-> "none"]

\* finally { await browser.close() } (lines 419-421), then the function settles
\* with `ret`. Closing the browser closes its contexts. A close() that rejects
\* replaces the outcome and leaves the browser as it was.
ShotFinally(c, ret, closeOk) ==
  IF closeOk
    THEN [c EXCEPT !.pc = "done", !.browser = "closed", !.open = 0, !.ret = ret]
    ELSE [c EXCEPT !.pc = "done", !.ret = "thrown"]

\* const browser = await chromium.launch(...) (line 331), outside the try.
ShotLaunch ==
  /\ collab.fn = "captureScreenshot"
  /\ collab.pc = "launch"
  /\ \E launchOk \in BOOLEAN :
       collab' = IF launchOk
                   THEN [collab EXCEPT !.pc = "loop", !.browser = "open"]
                   ELSE [collab EXCEPT !.pc = "done", !.ret = "thrown"]
  /\ UNCHANGED batchAll

\* The head of the while loop up to page.goto (lines 339-366): a new context
\* and page, then the navigation with the current waitUntil. A newContext that
\* rejects goes to the catch block as a failed attempt does.
ShotAttempt ==
  /\ collab.fn = "captureScreenshot"
  /\ collab.pc = "loop"
  /\ \E contextOk \in BOOLEAN :
       collab' = IF contextOk
                   THEN [collab EXCEPT !.pc = "attempt", !.open = @ + 1,
                                       !.used = Append(@, collab.waitUntil)]
                   ELSE [collab EXCEPT !.pc = "failed"]
  /\ UNCHANGED batchAll

\* const waitTime = Math.pow(2, retryAttempt) * 1000 (line 409)
ShotWaitTime(retryAttempt) == (2 ^ retryAttempt) * ShotBackoffBase

\* The catch block of an attempt (lines 393-415): the context of the attempt is
\* not touched. retryAttempt++ and the new waitUntil, then the backoff timer; or
\* throw lastError, which runs the finally.
ShotCatch(c, closeOk) ==
  IF c.retry < c.retryCount
    THEN [c EXCEPT !.pc = "backoff", !.retry = @ + 1,
                   !.waitUntil = IF c.retry + 1 = 1 THEN "load"
                                 ELSE IF c.retry + 1 = 2 THEN "commit" ELSE @,
                   !.delays = Append(@, ShotWaitTime(c.retry + 1))]
    ELSE ShotFinally(c, "thrown", closeOk)

\* The attempt settles: page.goto, the waits and page.screenshot went through
\* (lines 363-392: context.close(), return outputPath) or one of them rejected.
ShotSettle ==
  /\ collab.fn = "captureScreenshot"
  /\ collab.pc \in {"attempt", "failed"}
  /\ \E ok \in BOOLEAN, closeOk \in BOOLEAN :
       /\ collab.pc = "failed" => ~ok
       /\ collab' = IF ok
                      THEN ShotFinally([collab EXCEPT !.open = @ - 1], "path", closeOk)
                      ELSE ShotCatch(collab, closeOk)
  /\ UNCHANGED batchAll

\* The backoff timer fires (line 411) and the loop goes round.
ShotBackoffDone ==
  /\ collab.fn = "captureScreenshot"
  /\ collab.pc = "backoff"
  /\ collab' = [collab EXCEPT !.pc = "loop"]
  /\ UNCHANGED batchAll

\* finally { if (chrome) { try { await chrome.kill() } catch ... } } (lines
\* 292-302), then the function settles with `ret`. A kill() that rejects is
\* logged and may have left the process running.
LhFinally(c, ret, killOk) ==
  IF c.chrome = "alive" /\ killOk
    THEN [c EXCEPT !.pc = "done", !.chrome = "dead", !.alive = @ - 1, !.ret = ret]
    ELSE [c EXCEPT !.pc = "done", !.ret = ret]

\* chrome = await chromeLauncher.launch(...) (line 58), inside the outer try.
LhLaunch ==
  /\ collab.fn = "runLighthouseTest"
  /\ collab.pc = "launch"
  /\ \E launchOk \in BOOLEAN :
       collab' = IF launchOk
                   THEN [collab EXCEPT !.pc = "attempt", !.chrome = "alive", !.alive = 1]
                   ELSE LhFinally(collab, "thrown", TRUE)
  /\ UNCHANGED batchAll

\* the delay before retry number `retryCount` with the exponent counting down
LhWaitTimeDown(retryCount) == (2 ^ (LhMaxRetries - retryCount)) * LhBackoffBase
\* const waitTime = Math.pow(2, retryCount) * 2000 (line 158)
LhWaitTime(retryCount) == (2 ^ retryCount) * LhBackoffBase

\* lighthouse(testUrl, lighthouseOptions) settles (lines 133-189). Resolved:
\* break, the report is written (or a throw on a missing result or report) and
\* the finally runs. Rejected: retryCount++ and the backoff timer, or throw
\* lhError when the retries are used up.
LhSettle ==
  /\ collab.fn = "runLighthouseTest"
  /\ collab.pc = "attempt"
  /\ \E ok \in BOOLEAN, reportOk \in BOOLEAN, killOk \in BOOLEAN :
       collab' = IF ok
                   THEN LhFinally(collab, IF reportOk THEN "result" ELSE "thrown", killOk)
                   ELSE IF collab.retry < LhMaxRetries
                     THEN [collab EXCEPT !.pc = "backoff", !.retry = @ + 1,
                                         !.delays = Append(@, LhWaitTime(collab.retry + 1))]
                     ELSE LhFinally(collab, "thrown", killOk)
  /\ UNCHANGED batchAll

\* After the backoff timer (lines 160-184): chrome.kill(), then a new launch
\* assigned to `chrome`, both in a try whose catch only logs; then the next
\* lighthouse call. A kill() that rejects skips the launch; a launch that
\* rejects leaves `chrome` referring to the killed process.
LhRestart ==
  /\ collab.fn = "runLighthouseTest"
  /\ collab.pc = "backoff"
  /\ \E killOk \in BOOLEAN, launchOk \in BOOLEAN :
       collab' = IF ~killOk
                   THEN [collab EXCEPT !.pc = "attempt"]
                   ELSE IF launchOk
                     THEN [collab EXCEPT !.pc = "attempt",
                                         !.alive = IF collab.chrome = "alive" THEN @ ELSE @ + 1,
                                         !.chrome = "alive"]
                     ELSE [collab EXCEPT !.pc = "attempt",
                                         !.alive = IF collab.chrome = "alive" THEN @ - 1 ELSE @,
                                         !.chrome = "dead"]
  /\ UNCHANGED batchAll

\* the options objects a caller passes to captureScreenshot
ShotOptions ==
  [waitUntil : WAITS \cup {LeftOut}, retryCount : (0..MaxShotRetries) \cup {Absent}]

CollabInit ==
  /\ websites = <<>>
  /\ testOptions = "o1"
  /\ maxConcurrent = 1
  /\ maxRetries = 0
  /\ cacheDuration = 1
  /\ running = 0
  /\ queue = <<>>
  /\ index = [k \in KEYS |-> NoEntry]
  /\ files = [k \in KEYS |-> NoFile]
  /\ now = 0
  /\ lastSet = [k \in KEYS |-> NoSet]
  /\ jobs = <<>>
  /\ batchResults = <<>>
  /\ batchPc = "init"
  /\ batchReturn = "none"
  /\ summaryData = NoSummary
  /\ firstRun = NoFirstRun
  /\ collab \in {ShotCall(o) : o \in ShotOptions} \cup {LhCall}

CollabNext ==
  \/ ShotLaunch
  \/ ShotAttempt
  \/ ShotSettle
  \/ ShotBackoffDone
  \/ LhLaunch
  \/ LhSettle
  \/ LhRestart

CollabSpec == CollabInit /\ [][CollabNext]_vars

\* ------------------------------------------------------------------ generateSummaryReport, in doubles
\* The scores are JavaScript numbers: `categories[key].score * 100` (index.js
\* 209-212) is a double product, and the sum of lines 531-533 adds doubles in the
\* order of the list. A double here is a whole number plus a multiple of 2^-50:
\* [whole |-> n, ulps |-> k] is n + k * 2^-50, for 0 <= n < 256 and small k >= 0.
Dbl(whole, ulps) == [whole |-> whole, ulps |-> ulps]
DblZero == Dbl(0, 0)
\* scores[category] of a category the result does not carry
NoDbl == Dbl(0 - 1, 0)

\* the distance between neighbouring doubles around n, in units of 2^-50 (1 for
\* the numbers below 8, whose multiples of 2^-50 are all doubles)
UlpAt(whole) ==
  IF whole < 8 THEN 1 ELSE IF whole < 16 THEN 2 ELSE IF whole < 32 THEN 4
  ELSE IF whole < 64 THEN 8 ELSE IF whole < 128 THEN 16 ELSE 32

\* round to nearest, ties to even: the multiple of m nearest to k
RoundToEven(k, m) ==
  LET q == k \div m
      r == k % m
  IN IF 2 * r < m THEN q * m
     ELSE IF 2 * r > m THEN (q + 1) * m
     ELSE IF q % 2 = 0 THEN q * m ELSE (q + 1) * m

\* acc + r.scores[category]: the exact sum rounded to a double
DblAdd(x, y) ==
  LET whole == x.whole + y.whole
  IN Dbl(whole, RoundToEven(x.ulps + y.ulps, UlpAt(whole)))

\* the fraction of a quotient is kept in two parts of 25 bits, in units of 2^-50
HalfWord == 2 ^ 25

\* sum / count for a quotient of at least 4: the exact quotient rounded to a
\* double, [whole, hi, lo] being whole + (hi * 2^25 + lo) * 2^-50
DblDivide(x, count) ==
  LET qi == x.whole \div count
      r == x.whole % count
      h == (r * HalfWord) \div count
      r1 == (r * HalfWord) % count
      l == (r1 * HalfWord + x.ulps) \div count
      r2 == (r1 * HalfWord + x.ulps) % count
      m == UlpAt(qi)
      lq == l \div m
      twice == 2 * ((l % m) * count + r2)
      up == twice > m * count \/ (twice = m * count /\ lq % 2 = 1)
      lo == IF up THEN (lq + 1) * m ELSE lq * m
      hi == IF lo >= HalfWord THEN h + 1 ELSE h
  IN [kind |-> "number",
      whole |-> IF hi >= HalfWord THEN qi + 1 ELSE qi,
      hi |-> IF hi >= HalfWord THEN hi - HalfWord ELSE hi,
      lo |-> IF lo >= HalfWord THEN lo - HalfWord ELSE lo]
\* averageScores[category] of a category that was never assigned
NoDblAverage == [kind |-> "undefined", whole |-> 0, hi |-> 0, lo |-> 0]

\* categories[key].score * 100 for the category scores 0.14, 0.5 and 0.55:
\* 14.000000000000002, 50 and 55.00000000000001
PercentScores == {Dbl(14, 2), Dbl(50, 0), Dbl(55, 8)}

NoDblScores == [c \in CATEGORIES |-> NoDbl]
\* results.filter(r => r.scores) (line 520) and the filter of lines 532 and 535
DblSuccessful(results) == {i \in 1..Len(results) : results[i].scores # NoDblScores}
DblCarrying(results, c) == {i \in DblSuccessful(results) : results[i].scores[c] # NoDbl}

\* .reduce((acc, r) => acc + r.scores[category], 0): the sum of the first i
\* entries, added from the left in the order of the list
RECURSIVE DblSumTo(_, _, _)
DblSumTo(i, results, c) ==
  IF i = 0 THEN DblZero
  ELSE LET acc == DblSumTo(i - 1, results, c) IN
       IF i \in DblCarrying(results, c) THEN DblAdd(acc, results[i].scores[c]) ELSE acc

\* the figures of summaryData (lines 509-540) for results with double scores
DblSummary(results) ==
  [totalWebsites |-> Len(results),
   successfulTests |-> Cardinality({i \in 1..Len(results) : results[i].error = NoError}),
   failedTests |-> Cardinality({i \in 1..Len(results) : results[i].error # NoError}),
   hasAverages |-> DblSuccessful(results) # {},
   averageScores |-> [c \in CATEGORIES |->
                        IF DblCarrying(results, c) # {}
                          THEN DblDivide(DblSumTo(Len(results), results, c),
                                         Cardinality(DblCarrying(results, c)))
                          ELSE NoDblAverage]]
NoDblSummary ==
  [totalWebsites |-> 0, successfulTests |-> 0, failedTests |-> 0, hasAverages |-> FALSE,
   averageScores |-> [c \in CATEGORIES |-> NoDblAverage]]

\* the entries of a batch: a failed target, or a target with its scores
DblEntries ==
  {[error |-> MsgPlain, scores |-> NoDblScores]}
    \cup {[error |-> NoError,
           scores |-> [c \in CATEGORIES |-> IF c = "performance" THEN p ELSE a]] :
            p \in PercentScores, a \in {NoDbl, Dbl(50, 0)}}
DblResultsOf(n) == [1..n -> DblEntries]
Orders(n) == {p \in [1..n -> 1..n] : \A i \in 1..n : \A k \in 1..n : i # k => p[i] # p[k]}
Permuted(results, p) == [i \in 1..Len(results) |-> results[p[i]]]

\* Two batches whose targets had the same outcomes and completed in different
\* orders: results and other are the two batchResults lists, summary and
\* otherSummary what generateSummaryReport computes for them.
SummaryCall(r, p) ==
  [fn |-> "generateSummaryReport", results |-> r, other |-> Permuted(r, p),
   made |-> FALSE, otherMade |-> FALSE,
   summary |-> NoDblSummary, otherSummary |-> NoDblSummary]

\* generateSummaryReport(batchResults, ...) of the first batch
Summarise ==
  /\ collab.fn = "generateSummaryReport"
  /\ ~collab.made
  /\ collab' = [collab EXCEPT !.made = TRUE, !.summary = DblSummary(collab.results)]
  /\ UNCHANGED batchAll

\* generateSummaryReport(batchResults, ...) of the second batch
SummariseOther ==
  /\ collab.fn = "generateSummaryReport"
  /\ ~collab.otherMade
  /\ collab' = [collab EXCEPT !.otherMade = TRUE, !.otherSummary = DblSummary(collab.other)]
  /\ UNCHANGED batchAll

SummaryInit ==
  /\ websites = <<>>
  /\ testOptions = "o1"
  /\ maxConcurrent = 1
  /\ maxRetries = 0
  /\ cacheDuration = 1
  /\ running = 0
  /\ queue = <<>>
  /\ index = [k \in KEYS |-> NoEntry]
  /\ files = [k \in KEYS |-> NoFile]
  /\ now = 0
  /\ lastSet = [k \in KEYS |-> NoSet]
  /\ jobs = <<>>
  /\ batchResults = <<>>
  /\ batchPc = "init"
  /\ batchReturn = "none"
  /\ summaryData = NoSummary
  /\ firstRun = NoFirstRun
  /\ \E n \in 0..MaxN : \E r \in DblResultsOf(n), p \in Orders(n) : collab = SummaryCall(r, p)

SummaryNext ==
  \/ Summarise
  \/ SummariseOther

SummarySpec == SummaryInit /\ [][SummaryNext]_vars

\* ------------------------------------------------------------------ runFullTest inside the batch
\* optimizedBatchTest with the browsers of every runFullTest call followed:
\* captureScreenshot launches a Playwright browser and closes it in its finally
\* (index.js 331, 419-421), then runLighthouseTest launches Chrome, may restart
\* it between its lighthouse calls and kills it in its finally (index.js 58,
\* 160-184, 292-302). collab.own[j] is the call of job j: call is the number of
\* the runFullTest call the record belongs to, pc its position, playwright and
\* chrome the processes the job's calls launched that are still running,
\* chromeVar what the variable `chrome` refers to, retry the retryCount of
\* runLighthouseTest and result how the call settles.
NotCalled ==
  [call |-> 0, pc |-> "start", playwright |-> 0, chrome |-> 0, chromeVar |-> "none",
   retry |-> 0, result |-> "none"]

\* where the current runFullTest call of job j is
CallPc(j) ==
  IF collab.own[j].call = jobs[j].calls THEN collab.own[j].pc ELSE "start"

InFullTest(j, pc) ==
  /\ collab.fn = "optimizedBatchTest"
  /\ batchPc = "awaiting"
  /\ jobs[j].pc = "running"
  /\ CallPc(j) = pc

\* runFullTest rejects with what its collaborator threw (index.js 480-483)
FullTestRejects(own) == [own EXCEPT !.pc = "settled", !.result = "reject"]

\* index.js 331: const browser = await chromium.launch(...)
BrowserLaunch(j) ==
  /\ InFullTest(j, "start")
  /\ \E launchOk \in BOOLEAN :
       LET own == [collab.own[j] EXCEPT !.call = jobs[j].calls, !.chromeVar = "none",
                                        !.retry = 0, !.result = "none"]
       IN collab' = [collab EXCEPT !.own[j] =
                       IF launchOk THEN [own EXCEPT !.pc = "shot", !.playwright = @ + 1]
                       ELSE FullTestRejects(own)]
  /\ UNCHANGED batchAll

\* index.js 334-421: the attempts of captureScreenshot end and its finally
\* awaits browser.close(); a close() that rejects leaves the browser running
\* and is what captureScreenshot rejects with.
BrowserClose(j) ==
  /\ InFullTest(j, "shot")
  /\ \E ok \in BOOLEAN, closeOk \in BOOLEAN :
       LET own == [collab.own[j] EXCEPT !.playwright = IF closeOk THEN @ - 1 ELSE @]
       IN collab' = [collab EXCEPT !.own[j] =
                       IF ok /\ closeOk THEN [own EXCEPT !.pc = "lighthouse"]
                       ELSE FullTestRejects(own)]
  /\ UNCHANGED batchAll

\* index.js 58: chrome = await chromeLauncher.launch(...)
ChromeLaunch(j) ==
  /\ InFullTest(j, "lighthouse")
  /\ \E launchOk \in BOOLEAN :
       collab' = [collab EXCEPT !.own[j] =
                    IF launchOk
                      THEN [@ EXCEPT !.pc = "audit", !.chrome = @ + 1, !.chromeVar = "alive"]
                      ELSE FullTestRejects(@)]
  /\ UNCHANGED batchAll

\* index.js 292-302: the finally of runLighthouseTest; a kill() that rejects is
\* logged and leaves the process running.
ChromeKilled(own, killOk) ==
  IF own.chromeVar = "alive" /\ killOk
    THEN [own EXCEPT !.chrome = @ - 1, !.chromeVar = "dead"]
    ELSE own

\* index.js 133-189: a lighthouse call settles; resolved, or rejected with the
\* retries used up, the finally runs and runLighthouseTest settles.
AuditSettles(j) ==
  /\ InFullTest(j, "audit")
  /\ \E ok \in BOOLEAN, killOk \in BOOLEAN :
       collab' = [collab EXCEPT !.own[j] =
                    IF ok
                      THEN [ChromeKilled(@, killOk) EXCEPT !.pc = "settled", !.result = "ok"]
                    ELSE IF @.retry < LhMaxRetries
                      THEN [@ EXCEPT !.pc = "restart", !.retry = @ + 1]
                    ELSE FullTestRejects(ChromeKilled(@, killOk))]
  /\ UNCHANGED batchAll

\* index.js 160-184: after the backoff chrome.kill() and a new launch, in a try
\* whose catch only logs.
ChromeRestart(j) ==
  /\ InFullTest(j, "restart")
  /\ \E killOk \in BOOLEAN, launchOk \in BOOLEAN :
       collab' = [collab EXCEPT !.own[j] =
                    IF ~killOk THEN [@ EXCEPT !.pc = "audit"]
                    ELSE IF launchOk
                      THEN [ChromeKilled(@, TRUE) EXCEPT !.pc = "audit", !.chrome = @ + 1,
                                                         !.chromeVar = "alive"]
                    ELSE [ChromeKilled(@, TRUE) EXCEPT !.pc = "audit"]]
  /\ UNCHANGED batchAll

\* part_001 263: the awaited runFullTest call of job j has settled
FullTestSettles(j) ==
  /\ InFullTest(j, "settled")
  /\ \E message \in AttemptMessages, writeOk \in BOOLEAN :
       AttemptSettles(j, collab.own[j].result, message, writeOk)

BrowserInit ==
  /\ websites \in {SubSeq(SiteList, 1, n) : n \in 1..HangN}
  /\ testOptions = "o1"
  /\ maxConcurrent \in 1..MaxCap
  /\ maxRetries \in 0..RerunRetries
  /\ cacheDuration \in 1..MaxDuration
  /\ running = 0
  /\ queue = <<>>
  /\ index = [k \in KEYS |-> NoEntry]
  /\ files = [k \in KEYS |-> NoFile]
  /\ now = 0
  /\ lastSet = [k \in KEYS |-> NoSet]
  /\ jobs = [j \in 1..Len(websites) |-> NewJob]
  /\ batchResults = <<>>
  /\ batchPc = "init"
  /\ batchReturn = "none"
  /\ summaryData = NoSummary
  /\ firstRun = NoFirstRun
  /\ collab = [fn |-> "optimizedBatchTest", own |-> [j \in 1..Len(websites) |-> NotCalled]]

BrowserNext ==
  \/ Construct
  \/ \E j \in JobIds : Dispatch(j)
  \/ \E j \in JobIds : Resume(j)
  \/ \E j \in JobIds : BrowserLaunch(j)
  \/ \E j \in JobIds : BrowserClose(j)
  \/ \E j \in JobIds : ChromeLaunch(j)
  \/ \E j \in JobIds : AuditSettles(j)
  \/ \E j \in JobIds : ChromeRestart(j)
  \/ \E j \in JobIds : FullTestSettles(j)
  \/ \E j \in JobIds : BackoffDone(j)
  \/ \E j \in JobIds : Collect(j)
  \/ Finish

BrowserSpec == BrowserInit /\ [][BrowserNext]_vars

\* ------------------------------------------------------------------ version-compare.js
\* compareResults(currentResult, previousResult), called on its own. Scores are
\* kept in half points (a score of 51.5 is 103) and the numbers of the metrics
\* in thousandths (1.002 is 1002), so that the thresholds 1 and 0.001 have
\* values on both sides.
CompareCategories == <<"performance", "accessibility">>

\* const keyMetrics = [...] (index.js 217-226): the keys of the metrics object
\* of a summary file
KeyMetrics ==
  {"first-contentful-paint", "largest-contentful-paint", "speed-index",
   "total-blocking-time", "cumulative-layout-shift", "interactive",
   "server-response-time", "max-potential-fid"}

\* metricKey.includes('layout-shift') || metricKey.includes('time'), worked out
\* for each key of KeyMetrics: 'time' occurs in total-blocking-time and
\* server-response-time, 'layout-shift' in cumulative-layout-shift, neither in
\* the other five.
IncludesLayoutShiftOrTime(metricKey) ==
  metricKey \in {"total-blocking-time", "server-response-time", "cumulative-layout-shift"}

\* A metric of a result: not there ("absent"), or { title, value } whose value
\* (Lighthouse's displayValue) is a text with a number in it ("number", n in
\* thousandths), a text without a digit ("nodigits"), or undefined.
NoMetric == [kind |-> "absent", n |-> 0]

\* extractNumber (lines 165-169): null when the text has no digit; the caller
\* made sure the metric is there. An undefined value makes value.value.match
\* throw a TypeError.
extractNumber(value) ==
  IF value.kind = "number" THEN [kind |-> "number", n |-> value.n]
  ELSE IF value.kind = "undefined" THEN [kind |-> "threw", n |-> 0]
  ELSE [kind |-> "null", n |-> 0]

\* previousResult.scores[category] || 0
PreviousScore(previousResult, category) ==
  IF previousResult.scores[category] = Absent THEN 0 ELSE previousResult.scores[category]

\* a classification that counts a change of exactly one point as a change
ScoreStatusFromOne(diff) ==
  IF diff >= OnePoint THEN "improved"
  ELSE IF diff <= 0 - OnePoint THEN "degraded"
  ELSE "unchanged"
\* Lines 136-154: the list a category is pushed to.
ScoreStatus(diff) ==
  IF diff > OnePoint THEN "improved"
  ELSE IF diff < 0 - OnePoint THEN "degraded"
  ELSE "unchanged"

\* Lines 179-189: the status of a metric whose two numbers were extracted.
MetricStatus(metricKey, diff) ==
  IF diff > MetricThreshold \/ 0 - diff > MetricThreshold
    THEN IF IncludesLayoutShiftOrTime(metricKey)
           THEN (IF diff < 0 THEN "improved" ELSE "degraded")
           ELSE (IF diff > 0 THEN "improved" ELSE "degraded")
    ELSE "unchanged"

\* comparison.metrics[metricKey] is not set
NotCompared == [compared |-> FALSE, diff |-> 0, status |-> "none", improved |-> FALSE]

\* Lines 108-206. The lists hold the categories in the order of
\* Object.keys(currentResult.scores); threw: a metric that is there in both
\* results has an undefined value.
compareResults(currentResult, previousResult) ==
  LET diffOf(c) == currentResult.scores[c] - PreviousScore(previousResult, c)
      listOf(status) ==
        SelectSeq(CompareCategories, LAMBDA c : ScoreStatus(diffOf(c)) = status)
      both(m) == currentResult.metrics[m].kind # "absent"
                   /\ previousResult.metrics[m].kind # "absent"
      cur(m) == extractNumber(currentResult.metrics[m])
      prev(m) == extractNumber(previousResult.metrics[m])
  IN
  [threw |-> \E m \in KeyMetrics : both(m) /\ (cur(m).kind = "threw" \/ prev(m).kind = "threw"),
   scores |-> [c \in CATEGORIES |->
                 [current |-> currentResult.scores[c],
                  previous |-> PreviousScore(previousResult, c),
                  diff |-> diffOf(c),
                  percentChange |->
                    IF PreviousScore(previousResult, c) > 0
                      THEN Divide(diffOf(c) * 100, PreviousScore(previousResult, c))
                      ELSE Divide(0, 1)]],
   improved |-> listOf("improved"),
   degraded |-> listOf("degraded"),
   unchanged |-> listOf("unchanged"),
   metrics |-> [m \in KeyMetrics |->
                  IF both(m) /\ cur(m).kind = "number" /\ prev(m).kind = "number"
                    THEN LET status == MetricStatus(m, cur(m).n - prev(m).n) IN
                         [compared |-> TRUE, diff |-> cur(m).n - prev(m).n,
                          status |-> status, improved |-> status = "improved"]
                    ELSE NotCompared]]

\* the scores of a current result and of a history record, in half points
CurrentScores == {0, 2, 3}
PreviousScores == {Absent, 0, 2, 3, 5}
\* the metrics of a current result and of a history record
CurrentMetrics ==
  {[kind |-> "number", n |-> n] : n \in {1000, 1001, 1002}}
    \cup {[kind |-> "nodigits", n |-> 0], [kind |-> "undefined", n |-> 0], NoMetric}
PreviousMetrics ==
  {[kind |-> "number", n |-> n] : n \in {1000, 1001, 1002}}
    \cup {[kind |-> "undefined", n |-> 0], NoMetric}

\* a metrics object with one key that may be there
OneMetric(m, value) == [k \in KeyMetrics |-> IF k = m THEN value ELSE NoMetric]

NoComparison == compareResults(
  [scores |-> [c \in CATEGORIES |-> 0], metrics |-> [k \in KeyMetrics |-> NoMetric]],
  [scores |-> [c \in CATEGORIES |-> 0], metrics |-> [k \in KeyMetrics |-> NoMetric]])

CompareCall(currentResult, previousResult) ==
  [fn |-> "compareResults", pc |-> "call", currentResult |-> currentResult,
   previousResult |-> previousResult, comparison |-> NoComparison]

\* const comparison = compareResults(currentResult, previousResult) (line 411)
Compare ==
  /\ collab.fn = "compareResults"
  /\ collab.pc = "call"
  /\ collab' = [collab EXCEPT !.pc = "done",
                              !.comparison = compareResults(collab.currentResult,
                                                            collab.previousResult)]
  /\ UNCHANGED batchAll

CompareInit ==
  /\ websites = <<>>
  /\ testOptions = "o1"
  /\ maxConcurrent = 1
  /\ maxRetries = 0
  /\ cacheDuration = 1
  /\ running = 0
  /\ queue = <<>>
  /\ index = [k \in KEYS |-> NoEntry]
  /\ files = [k \in KEYS |-> NoFile]
  /\ now = 0
  /\ lastSet = [k \in KEYS |-> NoSet]
  /\ jobs = <<>>
  /\ batchResults = <<>>
  /\ batchPc = "init"
  /\ batchReturn = "none"
  /\ summaryData = NoSummary
  /\ firstRun = NoFirstRun
  /\ \E cs \in [CATEGORIES -> CurrentScores], ps \in [CATEGORIES -> PreviousScores],
        m \in KeyMetrics, cm \in CurrentMetrics, pm \in PreviousMetrics :
       collab = CompareCall([scores |-> cs, metrics |-> OneMetric(m, cm)],
                            [scores |-> ps, metrics |-> OneMetric(m, pm)])

CompareNext == Compare

CompareSpec == CompareInit /\ [][CompareNext]_vars

\* ------------------------------------------------------------------ ResultCache, called directly
\* ResultCache is exported; here its methods are called in any order on one
\* instance, with the clock advancing and a new instance constructed over the
\* same directory (ApiRestart). lastSet is the history of the current instance.
ApiFrame == UNCHANGED <<configVars, firstRun, collab, limiterVars, batchVars>>

ApiSet(k, r, writeOk) ==
  /\ batchPc = "api"
  /\ LET s == Set(index, files, k, now, r, writeOk) IN
     /\ index' = s.index
     /\ files' = s.files
  /\ lastSet' = [lastSet EXCEPT ![k] =
                   [done |-> TRUE, time |-> now, result |-> r, wrote |-> writeOk]]
  /\ UNCHANGED now
  /\ ApiFrame

ApiHas(k, unlinkOk) ==
  /\ batchPc = "api"
  /\ LET h == Has(index, files, k, now, cacheDuration, unlinkOk) IN
     /\ index' = h.index
     /\ files' = h.files
  /\ UNCHANGED <<now, lastSet>>
  /\ ApiFrame

ApiGet(k, unlinkOk, readOk) ==
  /\ batchPc = "api"
  /\ LET g == Get(index, files, k, now, cacheDuration, unlinkOk, readOk) IN
     /\ index' = g.index
     /\ files' = g.files
  /\ UNCHANGED <<now, lastSet>>
  /\ ApiFrame

ApiCleanup(unlinkOk) ==
  /\ batchPc = "api"
  /\ LET c == Cleanup(index, files, now, cacheDuration, unlinkOk) IN
     /\ index' = c.index
     /\ files' = c.files
  /\ UNCHANGED <<now, lastSet>>
  /\ ApiFrame

ApiRestart ==
  /\ batchPc = "api"
  /\ index' = LoadCache(files)
  /\ lastSet' = [k \in KEYS |-> NoSet]
  /\ UNCHANGED <<now, files>>
  /\ ApiFrame

ApiTick ==
  /\ batchPc = "api"
  /\ now < MaxTime
  /\ now' = now + 1
  /\ UNCHANGED cacheVars
  /\ ApiFrame

CacheInit ==
  /\ websites = <<>>
  /\ testOptions = "o1"
  /\ maxConcurrent = 0
  /\ maxRetries = 0
  /\ cacheDuration \in 1..MaxDuration
  /\ running = 0
  /\ queue = <<>>
  /\ index = [k \in KEYS |-> NoEntry]
  /\ files = [k \in KEYS |-> NoFile]
  /\ now = 0
  /\ lastSet = [k \in KEYS |-> NoSet]
  /\ jobs = <<>>
  /\ batchResults = <<>>
  /\ batchPc = "api"
  /\ batchReturn = "none"
  /\ summaryData = NoSummary
  /\ firstRun = NoFirstRun
  /\ collab = NoCollab

\* the keys the direct calls use: one url under two option sets
ApiKeys == {generateKey("a", o) : o \in OPTIONS}

CacheNext ==
  \/ \E k \in ApiKeys, r \in RESULTS, writeOk \in BOOLEAN : ApiSet(k, r, writeOk)
  \/ \E k \in ApiKeys, unlinkOk \in BOOLEAN : ApiHas(k, unlinkOk)
  \/ \E k \in ApiKeys, unlinkOk \in BOOLEAN, readOk \in BOOLEAN : ApiGet(k, unlinkOk, readOk)
  \/ \E unlinkOk \in [KEYS -> BOOLEAN] : ApiCleanup(unlinkOk)
  \/ ApiRestart
  \/ ApiTick

CacheSpec == CacheInit /\ [][CacheNext]_vars

\* ------------------------------------------------------------------ claims
\* acquire() has returned to job j and j has not called release()
Holding(j) == jobs[j].acquired /\ jobs[j].releases = 0

\* C1: at every moment at most maxConcurrent jobs are between a returned acquire()
\* and their release(): ResourceManager.running never exceeds maxConcurrent, and
\* the jobs holding a slot are never more than running.
C1_SlotsWithinCapacity ==
  /\ running <= maxConcurrent
  /\ Cardinality({j \in JobIds : Holding(j)}) <= running

\* the capacity is in use and a further job waits in the queue
C1_Witness ==
  /\ maxConcurrent >= 1
  /\ Cardinality({j \in JobIds : Holding(j)}) = maxConcurrent
  /\ queue # <<>>

\* C2 (as claimed): the results returned by optimizedBatchTest list the targets in
\* the order of config.websites, whatever the order in which the jobs finish.
C2_ResultsInInputOrder ==
  batchReturn = "results" =>
    [i \in 1..Len(batchResults) |-> batchResults[i].url] = websites

\* how many entries of the batch results are for url u
EntriesFor(u) == Cardinality({i \in 1..Len(batchResults) : batchResults[i].url = u})
TargetsFor(u) == Cardinality({i \in 1..N : websites[i] = u})
OneEntryPerTarget ==
  /\ Len(batchResults) = N
  /\ \A u \in URLS : EntriesFor(u) = TargetsFor(u)

C4_ReleasedOnEveryPath ==
  \A j \in JobIds :
    (jobs[j].pc = "returned" /\ jobs[j].acquired) => jobs[j].releases >= 1

\* the queued jobs, and the one that called acquire() first (jobs are dispatched,
\* and so call acquire(), in the order of their index)
Queued == {j \in JobIds : jobs[j].pc = "queued"}
LongestWaiting(j) == j \in Queued /\ \A i \in Queued : j <= i
CallsRelease(j) == jobs'[j].releases = jobs[j].releases + 1

\* C5: a release() with callers queued unblocks exactly the longest-waiting one
\* and leaves running unchanged; every queued caller that gets its slot is the
\* longest-waiting one, and a caller arriving while others are queued gets no slot.
C5_FifoHandoff ==
  [][ /\ \A j \in JobIds :
           (CallsRelease(j) /\ queue # <<>>) =>
              /\ running' = running
              /\ queue' = Tail(queue)
              /\ \A i \in Queued : (jobs'[i].pc = "granted") <=> LongestWaiting(i)
      /\ \A i \in Queued :
           jobs'[i].pc # "queued" => (jobs'[i].pc = "granted" /\ LongestWaiting(i)
                                       /\ i = Head(queue) /\ running' = running)
      /\ \A i \in JobIds :
           (jobs[i].pc = "new" /\ jobs'[i].pc = "granted") => queue = <<>>
    ]_vars

\* a release() has handed its slot to the first waiter while another still waits
C5_Witness ==
  /\ queue # <<>>
  /\ \E i \in JobIds : jobs[i].pc = "returned" /\ jobs[i].releases = 1
  /\ \E j \in JobIds : jobs[j].pc = "granted"

\* C6 (as claimed, stated for the capacities of at least 1): every job blocked
\* in acquire() eventually returns from it with a slot.
C6_EventuallyAcquired ==
  \A j \in 1..MaxN :
    (maxConcurrent >= 1 /\ j \in JobIds /\ jobs[j].pc = "queued")
      ~> (j \in JobIds /\ jobs[j].pc = "running")

\* C7: with a working file system, on one ResultCache instance: while less than
\* cacheDuration has passed since set(url, options, r) wrote its file, get returns
\* r unchanged; once cacheDuration or more has passed since the set, has returns
\* false and get returns null (an age of exactly cacheDuration is expired).
C7_GetAfterSet ==
  \A k \in KEYS :
    lastSet[k].done =>
      LET age == now - lastSet[k].time
          h == Has(index, files, k, now, cacheDuration, TRUE)
          g == Get(index, files, k, now, cacheDuration, TRUE, TRUE)
      IN
      /\ (age < cacheDuration /\ lastSet[k].wrote) =>
            (h.ret /\ g.kind = "hit" /\ g.result = lastSet[k].result)
      /\ age >= cacheDuration => (~h.ret /\ g.kind = "null")

\* a stored entry has reached the age of exactly cacheDuration and is still indexed
C7_Witness ==
  \E k \in KEYS :
    /\ lastSet[k].done /\ lastSet[k].wrote
    /\ now - lastSet[k].time = cacheDuration
    /\ index[k] # NoEntry
    /\ files[k].kind = "json"

\* C8 (as claimed): a cache failure is a miss: a testWebsite call that ends
\* without having run the audit was served a cached result.
C8_CacheFailureIsMiss ==
  \A j \in JobIds :
    (jobs[j].pc = "returned" /\ jobs[j].calls = 0) => jobs[j].outcome.kind = "success"

C10_AlwaysJobResult ==
  \A j \in JobIds :
    jobs[j].pc = "returned" =>
      /\ jobs[j].outcome.kind \in {"success", "failure"}
      /\ jobs[j].outcome.kind = "failure" => jobs[j].outcome.error = jobs[j].lastError

\* the error kinds the retry policy is said not to retry: a target that can
\* never be resolved fails the same way on every attempt
IsNonRetryable(message) == message = MsgNameNotResolved

\* C11 (as claimed): an attempt that fails with a non-retryable error kind fails
\* the job at once: the job neither waits a backoff delay nor makes a further
\* attempt after that error.
C11_NonRetryableFailsAtOnce ==
  \A j \in JobIds :
    IsNonRetryable(jobs[j].lastError) => jobs[j].pc \notin {"backoff", "running"}

\* job i has ended as a failure: its attempts were used up, or it threw
FailedJob(i) ==
  /\ i \in JobIds
  /\ jobs[i].pc = "returned"
  /\ jobs[i].outcome.kind \in {"failure", "threw"}

\* C12 (as claimed, stated for the capacities of at least 1): once a target has
\* failed, every other target of the same call still runs to its own outcome.
C12_SiblingsStillFinish ==
  \A j \in 1..MaxN :
    (maxConcurrent >= 1 /\ j \in JobIds /\ \E i \in JobIds : i # j /\ FailedJob(i))
      ~> (j \in JobIds /\ jobs[j].pc \in {"returned", "collected"})

\* C13 (as claimed, stated for a non-empty list and the capacities of at least 1):
\* a call that has constructed its limiter and cache eventually completes and
\* returns with a summary generated.
C13_BatchCompletes ==
  (N >= 1 /\ maxConcurrent >= 1 /\ batchPc = "dispatching")
    ~> (batchPc = "done" /\ batchReturn = "results" /\ summaryData.made)

\* the key of target j
KeyOf(j) == generateKey(websites[j], testOptions)

\* job j is past its cache lookup and runs, or waits to run, the audit
Auditing(j) == jobs[j].calls >= 1 \/ jobs[j].pc \in {"queued", "granted", "running", "backoff"}

\* the first call left a stored result for target j that is younger than cacheDuration
StoredInWindow(j) ==
  /\ firstRun.done
  /\ firstRun.files[KeyOf(j)].kind = "json"
  /\ now - firstRun.files[KeyOf(j)].timestamp < cacheDuration

\* every set of the first call wrote its file
FirstRunWritesOk == \A k \in KEYS : firstRun.sets[k].done => firstRun.sets[k].wrote

C15_OneFreshExecutionPerKey ==
  \A i, j \in JobIds :
    (i # j /\ KeyOf(i) = KeyOf(j)) => ~(jobs[i].calls >= 1 /\ jobs[j].calls >= 1)

\* the entries of the targets that succeeded and carry a score for category c
Scored(c) ==
  {i \in 1..Len(batchResults) :
     batchResults[i].error = NoError /\ batchResults[i].scores[c] # Absent}
RECURSIVE SumOf(_, _)
SumOf(I, c) ==
  IF I = {} THEN 0
  ELSE LET i == CHOOSE x \in I : TRUE IN batchResults[i].scores[c] + SumOf(I \ {i}, c)

\* C16: in the summary of a returned batch the average of a category is the sum
\* of that category's scores over the successful entries that carry it, divided
\* by their number: failed targets and successful results without the category
\* are in neither the sum nor the number.
C16_MeansOverSuccesses ==
  batchReturn = "results" =>
    \A c \in CATEGORIES :
      Scored(c) # {} =>
        LET avg == summaryData.averageScores[c] IN
        /\ avg.kind = "number"
        /\ avg.num * Cardinality(Scored(c)) = SumOf(Scored(c), c) * avg.den

\* three targets, one failed, the others with performance 80 and 100 and only
\* one of them with an accessibility score: performance 90, accessibility 90
C16_Witness ==
  /\ batchReturn = "results"
  /\ N = 3
  /\ summaryData.failedTests = 1
  /\ {batchResults[i].scores["performance"] : i \in Scored("performance")} = {80, 100}
  /\ Cardinality(Scored("accessibility")) = 1
  /\ summaryData.averageScores["performance"] = [kind |-> "number", num |-> 90, den |-> 1]
  /\ summaryData.averageScores["accessibility"] = [kind |-> "number", num |-> 90, den |-> 1]

\* the number of entries of a result list that carry an error
FailedEntries(results) == Cardinality({i \in 1..Len(results) : results[i].error # NoError})

\* C17: every callback adds one entry for its target, with a non-empty error
\* message and no scores exactly when the job did not succeed; the summary of a
\* returned batch reports totalWebsites = number of entries = N, failedTests =
\* number of entries with an error, successfulTests + failedTests = totalWebsites.
C17_SummaryCounts ==
  [][ /\ \A j \in JobIds :
           (jobs[j].pc = "returned" /\ jobs'[j].pc = "collected") =>
              LET e == batchResults'[Len(batchResults')] IN
              /\ batchResults' = Append(batchResults, e)
              /\ e.url = websites[j]
              /\ (e.error = NoError) <=> (jobs[j].outcome.kind = "success")
              /\ e.error # NoError => (e.error # Undefined /\ e.scores = NoScores)
      /\ batchReturn' = "results" =>
           /\ summaryData'.made
           /\ summaryData'.totalWebsites = Len(batchResults')
           /\ summaryData'.totalWebsites = N
           /\ summaryData'.failedTests = FailedEntries(batchResults')
           /\ summaryData'.successfulTests + summaryData'.failedTests
                = summaryData'.totalWebsites
    ]_vars

\* a returned batch of MaxN targets whose summary counts a success, a job that
\* failed after its retries and a job that threw
C17_Witness ==
  /\ batchReturn = "results"
  /\ summaryData.totalWebsites = MaxN
  /\ summaryData.successfulTests = 1
  /\ summaryData.failedTests = 2
  /\ \E i \in 1..Len(batchResults) : batchResults[i].error = MsgTypeError
  /\ \E i \in 1..Len(batchResults) : batchResults[i].error \in {MsgPlain, MsgNav, MsgNameNotResolved}

\* C18: the summary of a returned batch never holds the result of a division by
\* zero. With no successful result at all no averageScores are assigned and no
\* average row is rendered; a category that no successful result carries has no
\* average and its cell of the average row reads N/A.
C18_NoDataNoFault ==
  batchReturn = "results" =>
    LET row == generateAverageScoreRow(summaryData) IN
    /\ \A c \in CATEGORIES :
         /\ summaryData.averageScores[c].kind \in {"number", "undefined"}
         /\ Scored(c) = {} =>
              /\ summaryData.averageScores[c] = NoAverage
              /\ row.row => row.cells[c] = "N/A"
         /\ row.cells[c] \notin {"NaN", "Infinity"}
    /\ summaryData.successfulTests = 0 => (~summaryData.hasAverages /\ ~row.row)

\* a batch of MaxN targets has returned with no successful result
C18_Witness ==
  /\ batchReturn = "results"
  /\ N = MaxN
  /\ summaryData.successfulTests = 0
  /\ summaryData.failedTests = MaxN
  /\ \A c \in CATEGORIES : Scored(c) = {}

\* job j is between the start of its first attempt and its return
InAttempt(j) == jobs[j].pc \in {"running", "backoff"}

\* C19: with maxConcurrent = 1 the jobs that missed the cache run one after the
\* other: a job starts its first attempt only when no other job holds the slot
\* (every job that got past acquire() before it has called release()), and at
\* no time are two jobs within their attempts.
C19_SerializedAtCapacityOne ==
  [][ maxConcurrent = 1 =>
        /\ \A j \in JobIds :
             (jobs[j].calls = 0 /\ jobs'[j].calls = 1) =>
               \A i \in JobIds \ {j} :
                 /\ jobs[i].pc \notin {"granted", "running", "backoff"}
                 /\ jobs[i].acquired => jobs[i].releases >= 1
        /\ Cardinality({j \in JobIds : InAttempt(j)}') <= 1
    ]_vars

\* two targets, one slot: the first job has used up its attempts, released the
\* slot and been recorded; the second, which waited in the queue, now runs
C19_Witness ==
  /\ maxConcurrent = 1
  /\ N = 2
  /\ Len(batchResults) = 1
  /\ batchResults[1].url = websites[1]
  /\ batchResults[1].error \in {MsgPlain, MsgNav, MsgNameNotResolved}
  /\ jobs[2].pc = "running"
  /\ jobs[2].calls = 1
  /\ running = 1

\* C20: the callbacks of all targets have been called before any job runs an
\* attempt or is recorded; a caller waits in the queue only while running =
\* maxConcurrent; with no more targets than slots no job ever waits.
C20_LimiterOnlySerializes ==
  /\ batchPc = "dispatching" =>
       (batchResults = <<>> /\ \A j \in JobIds : jobs[j].calls = 0 /\ jobs[j].pc # "collected")
  /\ queue # <<>> => running = maxConcurrent
  /\ \A j \in JobIds : jobs[j].pc = "queued" => (running = maxConcurrent /\ N > maxConcurrent)

\* as many cache-miss targets as slots, all with an attempt in flight at once
C20_Witness ==
  /\ N = MaxCap
  /\ maxConcurrent = MaxCap
  /\ \A j \in JobIds : jobs[j].pc = "running"
  /\ running = MaxCap
  /\ queue = <<>>

\* C21: every attempt of a job runs under a deadline, so an attempt that was
\* started always ends (with a result or a failure) and the job goes on to a
\* retry or to its outcome, also when the collaborator never responds.
C21_AttemptsEnd ==
  \A j \in 1..HangN :
    (j \in JobIds /\ jobs[j].pc = "running")
      ~> (j \in JobIds /\ jobs[j].pc \in {"backoff", "returned", "collected"})

\* how much of the page load a wait condition waits for
Strictness(w) ==
  IF w = "commit" THEN 0
  ELSE IF w = "domcontentloaded" THEN 1
  ELSE IF w = "load" THEN 2
  ELSE 3

\* C22: over the attempts of one captureScreenshot call, the waitUntil an
\* attempt navigates with is never stricter than the waitUntil of an earlier
\* attempt (commit < domcontentloaded < load < networkidle).
C22_WaitNeverStricter ==
  collab.fn = "captureScreenshot" =>
    \A i \in DOMAIN collab.used : \A k \in DOMAIN collab.used :
      i < k => Strictness(collab.used[k]) <= Strictness(collab.used[i])

InStep(k) ==
  \/ index[k] = NoEntry /\ files[k].kind = "nofile"
  \/ index[k] # NoEntry /\ files[k].kind = "json" /\ files[k].timestamp = index[k]

C26_SurvivesRestart ==
  \A k \in KEYS :
    /\ (lastSet[k].done /\ lastSet[k].wrote /\ now - lastSet[k].time < cacheDuration) =>
         LET loaded == LoadCache(files)
             g == Get(loaded, files, k, now, cacheDuration, TRUE, TRUE)
         IN
         /\ files[k] = JsonStringify([timestamp |-> lastSet[k].time,
                                      result |-> lastSet[k].result])
         /\ index[k] = lastSet[k].time
         /\ loaded[k] = lastSet[k].time
         /\ g.kind = "hit"
         /\ g.result = lastSet[k].result
    /\ (~lastSet[k].done /\ index[k] # NoEntry) =>
         /\ files[k].kind = "json"
         /\ index[k] = files[k].timestamp
         /\ now - index[k] < cacheDuration =>
              LET g == Get(index, files, k, now, cacheDuration, TRUE, TRUE) IN
              g.kind = "hit" /\ g.result = files[k].result

\* an instance constructed over the directory holds an entry it did not set
\* itself, younger than cacheDuration, with the second of the two results
C26_Witness ==
  \E k \in KEYS :
    /\ ~lastSet[k].done
    /\ index[k] # NoEntry
    /\ now - index[k] < cacheDuration
    /\ index[k] >= 1
    /\ files[k].kind = "json"
    /\ files[k].result = ResultB

\* C27: per target the cache is asked first. A job that is answered at its
\* lookup has its outcome without acquire(), release() or an audit, and leaves
\* running and the queue as they were; a job enters acquire() only after has()
\* answered false; an audit starts only after acquire() returned; and when a
\* successful job releases its slot, its result is stored under its key, with
\* the time of the store.
C27_CheckAcquireStoreRelease ==
  [][ \A j \in JobIds :
        /\ (jobs[j].pc = "new" /\ jobs'[j].pc = "returned") =>
             /\ running' = running
             /\ queue' = queue
             /\ jobs'[j].calls = 0
             /\ ~jobs'[j].acquired
             /\ jobs'[j].releases = 0
        /\ (jobs[j].pc = "new" /\ jobs'[j].pc \in {"queued", "granted"}) =>
             ~Has(index, files, KeyOf(j), now, cacheDuration, TRUE).ret
        /\ jobs'[j].calls = jobs[j].calls + 1 =>
             /\ jobs'[j].acquired
             /\ jobs'[j].releases = 0
             /\ jobs[j].calls = 0 => jobs[j].pc = "granted"
        /\ (jobs[j].pc = "running" /\ jobs'[j].pc = "returned"
              /\ jobs'[j].outcome.kind = "success") =>
             /\ jobs[j].releases = 0 /\ jobs'[j].releases = 1
             /\ index'[KeyOf(j)] = now
             /\ lastSet'[KeyOf(j)].done
             /\ lastSet'[KeyOf(j)].time = now
             /\ lastSet'[KeyOf(j)].result = jobs'[j].outcome.result
    ]_vars

\* one target was answered from the cache and waits to be recorded, untouched by
\* the limiter, while another, which missed, holds a slot and is being audited
C27_Witness ==
  \E j \in JobIds : \E k \in JobIds :
    /\ jobs[j].pc = "returned" /\ jobs[j].outcome.kind = "success"
    /\ jobs[j].calls = 0 /\ ~jobs[j].acquired /\ jobs[j].releases = 0
    /\ jobs[k].pc = "running" /\ jobs[k].acquired /\ jobs[k].calls = 1
    /\ running = 1

\* job j ends an attempt with the outcome `kinds` in this step
EndsWith(j, kinds) ==
  /\ jobs[j].pc = "running"
  /\ jobs'[j].pc = "returned"
  /\ jobs'[j].outcome.kind \in kinds

C29_ContextClosedBeforeNext ==
  collab.fn = "captureScreenshot" =>
    /\ collab.pc = "attempt" => collab.open = 1
    /\ (collab.pc = "done" /\ collab.browser # "none" /\ collab.ret = "path") =>
         collab.browser = "closed" /\ collab.open = 0

\* the delays in the order they were waited never get shorter
NonDecreasing(delays) ==
  \A i \in DOMAIN delays : \A k \in DOMAIN delays : i < k => delays[i] <= delays[k]

\* C30: in each of the three retry loops the delay before a retry is at least
\* the delay before the retry before it: over the retries of a runLighthouseTest
\* or captureScreenshot call as they were waited, with the first delays 4000 ms
\* and 2000 ms, and for testWebsite's retries*5000 over every retry in the budget.
C30_BackoffNonDecreasing ==
  /\ NonDecreasing(collab.delays)
  /\ Len(collab.delays) = collab.retry
  /\ collab.retry >= 1 =>
       collab.delays[1] = 2 * (IF collab.fn = "runLighthouseTest"
                                 THEN LhBackoffBase ELSE ShotBackoffBase)
  /\ \A i \in 1..MaxRetries :
       /\ WaitTime(i) = i * BackoffBase
       /\ WaitTime(i + 1) >= WaitTime(i)

\* a call of index.js waits before its second retry, longer than before its first
C30_Witness ==
  /\ collab.retry = 2
  /\ Len(collab.delays) = 2
  /\ collab.delays[2] > collab.delays[1]
  /\ collab.pc = "backoff"

\* C31 (as claimed): after any sequence of set, has, get and cleanup, a failed
\* file write included, a key is in the index exactly when its cache file
\* exists, and a key whose last set did not write its file is absent for has.
C31_IndexMatchesDirectory ==
  \A k \in KEYS :
    /\ index[k] # NoEntry <=> files[k].kind = "json"
    /\ (lastSet[k].done /\ ~lastSet[k].wrote) =>
         ~Has(index, files, k, now, cacheDuration, TRUE).ret

\* the categories of the list, as a set
InList(list) == {list[i] : i \in DOMAIN list}

\* C32: when compareResults has returned, every score category of the current
\* result is in exactly one of improved, degraded and unchanged, no list names a
\* category twice, and the category is in improved iff current - previous > 1,
\* in degraded iff current - previous < -1 and in unchanged otherwise, a
\* category the previous result lacks being compared against 0.
C32_ScoreListsPartition ==
  (collab.pc = "done" /\ ~collab.comparison.threw) =>
    LET c == collab.comparison
        diff(cat) == collab.currentResult.scores[cat]
                       - (IF collab.previousResult.scores[cat] = Absent
                            THEN 0 ELSE collab.previousResult.scores[cat])
    IN
    /\ Len(c.improved) + Len(c.degraded) + Len(c.unchanged) = Cardinality(CATEGORIES)
    /\ InList(c.improved) \cup InList(c.degraded) \cup InList(c.unchanged) = CATEGORIES
    /\ \A cat \in CATEGORIES :
         /\ cat \in InList(c.improved) <=> diff(cat) > OnePoint
         /\ cat \in InList(c.degraded) <=> diff(cat) < 0 - OnePoint
         /\ cat \in InList(c.unchanged) <=>
              (diff(cat) <= OnePoint /\ diff(cat) >= 0 - OnePoint)
         /\ c.scores[cat].diff = diff(cat)

\* a comparison in which one category gained exactly one point against a
\* previous result that has it, and is unchanged, and the other, which the
\* previous result lacks, scored 1.5 and is improved
C32_Witness ==
  /\ collab.pc = "done"
  /\ ~collab.comparison.threw
  /\ collab.currentResult.scores["performance"] = 2
  /\ collab.previousResult.scores["performance"] = 0
  /\ collab.comparison.unchanged = <<"performance">>
  /\ collab.currentResult.scores["accessibility"] = 3
  /\ collab.previousResult.scores["accessibility"] = Absent
  /\ collab.comparison.improved = <<"accessibility">>

\* the metrics of which less is better
LowerIsBetter ==
  {"first-contentful-paint", "largest-contentful-paint", "speed-index", "interactive",
   "total-blocking-time", "server-response-time", "max-potential-fid",
   "cumulative-layout-shift"}

EntrySet(results) == {results[i] : i \in DOMAIN results}

\* C33 (as claimed): with a runFullTest that behaves the same on every call for
\* a url, an empty cache and maxConcurrent >= 1, optimizedBatchTest, when it
\* has returned, has the per-target outcomes of the sequential batchTest and
\* the same totalWebsites, successfulTests, failedTests and averageScores.
C33_SameAsSequential ==
  (batchPc = "done" /\ batchReturn = "results") =>
    LET sequential == batchTest(websites, collab.behaviour)
        summary == sequentialSummary(sequential)
    IN
    /\ EntrySet(batchResults) = EntrySet(sequential)
    /\ summaryData.totalWebsites = summary.totalWebsites
    /\ summaryData.successfulTests = summary.successfulTests
    /\ summaryData.failedTests = summary.failedTests
    /\ summaryData.hasAverages = summary.hasAverages
    /\ summaryData.averageScores = summary.averageScores

\* C34 (as claimed): the slot accounting is exact: a job that got past acquire()
\* has called release() at most once, and exactly once when its testWebsite call
\* has ended; running is never negative; a job keeps its slot through its
\* retries and backoff waits; and when optimizedBatchTest has finished, running
\* is 0 and the queue is empty.
C34_SlotAccountingExact ==
  /\ running >= 0
  /\ \A j \in JobIds :
       /\ jobs[j].releases <= 1
       /\ jobs[j].releases >= 1 => jobs[j].acquired
       /\ (jobs[j].pc = "returned" /\ jobs[j].acquired) => jobs[j].releases = 1
       /\ jobs[j].pc \in {"running", "backoff"} => Holding(j)
  /\ batchPc = "done" => (running = 0 /\ queue = <<>>)

\* C35 (as claimed): within one testWebsite call a true has() is followed by a
\* get() that returns a result, also when the entry expires between the two
\* calls or its file cannot be read: no testWebsite call returns null.
C35_HitPathNeverNull ==
  \A j \in JobIds : jobs[j].outcome.kind # "null"

\* the targets that missed the cache and whose acquire() call is not yet followed
\* by anything, and the moment at which no testWebsite call has gone further
Missed == {j \in JobIds : jobs[j].pc \in {"granted", "queued"}}
NothingResumed ==
  \A j \in JobIds :
    \/ jobs[j].pc \in {"new", "granted", "queued"}
    \/ jobs[j].pc = "returned" /\ ~jobs[j].acquired

\* C36: slots are first granted in input order: the callers wait in the queue in
\* the order of config.websites; of the targets that missed the cache the first
\* maxConcurrent got the initial slots and the others were queued; and a target
\* whose acquire() has just been resolved has no earlier target still waiting.
C36_GrantedInInputOrder ==
  /\ \A p \in DOMAIN queue : \A q \in DOMAIN queue : p < q => queue[p] < queue[q]
  /\ \A j \in JobIds : (jobs[j].pc = "queued") <=> (\E p \in DOMAIN queue : queue[p] = j)
  /\ \A j \in JobIds :
       jobs[j].pc = "granted" => \A i \in JobIds : i < j => jobs[i].pc # "queued"
  /\ NothingResumed =>
       \A j \in Missed :
         (jobs[j].pc = "granted") <=> (Cardinality({i \in Missed : i < j}) < maxConcurrent)

\* a queued target got the slot of a finished one while a later target still waits
C36_Witness ==
  \E j \in JobIds :
    /\ jobs[j].pc = "granted"
    /\ \E i \in JobIds : i < j /\ jobs[i].acquired /\ jobs[i].releases = 1
    /\ queue # <<>> /\ Head(queue) > j
    /\ Cardinality({i \in JobIds : Holding(i)}) + 1 = maxConcurrent

\* C39 (as claimed): every lighthouse call of runLighthouseTest is made while
\* the Chrome that `chrome` and lighthouseOptions.port refer to is running, also
\* after a restart step whose kill() or launch() failed.
C39_AuditAgainstLiveChrome ==
  (collab.fn = "runLighthouseTest" /\ collab.pc = "attempt") => collab.chrome = "alive"

\* C38 (as claimed): the summary figures do not depend on the completion order:
\* for two batch outcomes that are permutations of each other
\* generateSummaryReport computes the same totalWebsites, successfulTests and
\* failedTests and the same average of every category.
C38_SummaryOrderIndependent ==
  (collab.fn = "generateSummaryReport" /\ collab.made /\ collab.otherMade) =>
    /\ collab.summary.totalWebsites = collab.otherSummary.totalWebsites
    /\ collab.summary.successfulTests = collab.otherSummary.successfulTests
    /\ collab.summary.failedTests = collab.otherSummary.failedTests
    /\ collab.summary.hasAverages = collab.otherSummary.hasAverages
    /\ \A c \in CATEGORIES :
         collab.summary.averageScores[c] = collab.otherSummary.averageScores[c]

\* the browsers of job j that are running, and those of the whole batch
RECURSIVE LiveUpTo(_)
LiveUpTo(j) ==
  IF j = 0 THEN 0 ELSE collab.own[j].playwright + collab.own[j].chrome + LiveUpTo(j - 1)
LiveBrowsers == LiveUpTo(N)

\* C37 (as claimed): at every point of a batch the Playwright browsers and the
\* Chrome instances that are running are together at most maxConcurrent: a job
\* that holds a slot owns at most one, a job without a slot owns none.
C37_BrowsersWithinCapacity ==
  collab.fn = "optimizedBatchTest" =>
    /\ LiveBrowsers <= maxConcurrent
    /\ \A j \in JobIds :
         /\ Holding(j) => collab.own[j].playwright + collab.own[j].chrome <= 1
         /\ ~Holding(j) => collab.own[j].playwright + collab.own[j].chrome = 0

====
